---- MODULE Spec2Model ----
(***************************************************************************)
(* A model of the azerust authentication server: the per-connection        *)
(* RequestState machine of services/auth (authserver.rs), the wire decoder *)
(* (protocol/mod.rs), the MySQL account service (mysql-auth/accounts.rs),  *)
(* the login tokens (game/accounts.rs) and the WoW SRP6 server             *)
(* (wow-srp/lib.rs).                                                       *)
(*                                                                         *)
(* Scale: the 256-bit SRP integers are modelled as SrpWidth digits of      *)
(* radix SrpRadix (the code: 32 bytes of radix 256), the group is a small  *)
(* prime with generator 7, and SHA-1 is a small polynomial hash whose      *)
(* digest is one number.  Everything else (opcodes, status bytes, frame    *)
(* layouts, the order of calls) is as in the source.                       *)
(***************************************************************************)
EXTENDS Integers, Sequences, FiniteSets, TLC

\* ------------------------------------------------------------------------
\* Bounds of the model
\* ------------------------------------------------------------------------

\* connections the acceptor takes, one after the other
MaxConns == 2

\* distinct values the 16-byte random fields (server nonce, proof_data) take
NonceValues == 2

\* how far the clock runs, in units of 1 / SubPerSec seconds
MaxTime == 50

\* datagrams the heartbeat socket receives
MaxDatagrams == 2

\* how long the updater can wait for the write guard after it sampled the
\* instant of its tick, in units of 1 / SubPerSec seconds
MaxLockWait == 1

\* rows create_account inserts
MaxAccounts == 2

\* tasks that call MySQLRealmList::realms() at the same time
MaxCallers == 2

\* how far the wall clock of the realm list runs, in seconds
MaxWall == 15

\* connections the world server accepts, and frames it reads on one
MaxWorldConns == 2
MaxFrames == 2

\* ------------------------------------------------------------------------
\* Numbers and bytes (num_bigint::BigUint as the SRP code uses it)
\* ------------------------------------------------------------------------

\* radix of one "byte" of an SRP integer (the code: 256)
SrpRadix == 4

\* bytes of a serialised SRP integer (the code: 32)
SrpWidth == 2

\* values a SHA-1 digest takes in the model
HashMod == 16

\* lazy_static N: the SRP prime
N == 13

\* lazy_static G: the SRP generator
G == 7

\* the fixed ephemeral private key b of WowSRPServer::new, as bytes
PRIVATE_B == <<1, 3>>

RECURSIVE Pow(_, _)
Pow(x, e) == IF e = 0 THEN 1 ELSE x * Pow(x, e - 1)

\* BigUint::modpow
RECURSIVE modpow(_, _, _)
modpow(x, e, m) == IF e = 0 THEN 1 % m ELSE (x * modpow(x, e - 1, m)) % m

\* BigUint::from_bytes_le
RECURSIVE from_bytes_le(_)
from_bytes_le(s) ==
    IF s = <<>> THEN 0 ELSE Head(s) + SrpRadix * from_bytes_le(Tail(s))

\* BigUint::from_bytes_be
RECURSIVE from_bytes_be(_)
from_bytes_be(s) ==
    IF s = <<>> THEN 0
    ELSE s[Len(s)] + SrpRadix * from_bytes_be(SubSeq(s, 1, Len(s) - 1))

\* BigUint::to_bytes_le: the shortest little-endian form, <<0>> for zero
RECURSIVE to_bytes_le(_)
to_bytes_le(n) ==
    IF n < SrpRadix THEN <<n>>
    ELSE <<n % SrpRadix>> \o to_bytes_le(n \div SrpRadix)

\* the fixed-width little-endian bytes a client puts on the wire for n
wire_bytes(n) == [i \in 1..SrpWidth |-> (n \div Pow(SrpRadix, i - 1)) % SrpRadix]

\* Vec<u8>::try_into::<[u8; 32]>(): Ok only for a vector of exactly that length
try_into_ok(bytes) == Len(bytes) = SrpWidth

\* Sha1 over a byte string; the digest is one number below HashMod
RECURSIVE Sha1Fold(_, _)
Sha1Fold(h, s) ==
    IF s = <<>> THEN h ELSE Sha1Fold((h * 5 + Head(s) + 1) % HashMod, Tail(s))

Sha1(s) == Sha1Fold(3, s)

\* bitwise exclusive or of two bytes (u8 ^ u8)
RECURSIVE xor(_, _)
xor(a, b) ==
    IF a = 0 /\ b = 0 THEN 0
    ELSE ((a + b) % 2) + 2 * xor(a \div 2, b \div 2)

\* ------------------------------------------------------------------------
\* wow-srp: Verifier and WowSRPServer
\* ------------------------------------------------------------------------

\* the bytes of a user name or password (one code per string)
StrBytes(s) ==
    CASE s = "ARLYON" -> <<1>>
      [] s = "BOB"    -> <<2>>
      [] s = "CAROL"  -> <<3>>
      [] s = "NOBODY" -> <<4>>
      [] s = "TEST"   -> <<5>>
      [] s = "HUNTER" -> <<6>>
      [] s = "SECRET" -> <<7>>
      [] s = "DAVE"   -> <<0>>
      [] OTHER        -> <<0>>

\* Verifier::from_credentials on the bytes of username and password: the
\* value before .try_into().expect()
verifier_num_of_bytes(username, password, salt) ==
    LET inner == Sha1(username \o <<0>> \o password)
        hash  == from_bytes_le(<<Sha1(<<salt>> \o <<inner>>)>>)
    IN  modpow(G, hash, N)

\* Verifier::from_credentials, from G.modpow(..) on: to_bytes_le, try_into, expect
Verifier_of(num) ==
    IF try_into_ok(to_bytes_le(num))
    THEN [panic |-> FALSE, verifier |-> to_bytes_le(num)]
    ELSE [panic |-> TRUE, verifier |-> <<>>]

\* Verifier::from_credentials on byte strings
from_credentials_of_bytes(username, password, salt) ==
    Verifier_of(verifier_num_of_bytes(username, password, salt))

\* Verifier::from_credentials: the value before .try_into().expect()
verifier_num(username, password, salt) ==
    verifier_num_of_bytes(StrBytes(username), StrBytes(password), salt)

\* Verifier::from_credentials
from_credentials(username, password, salt) ==
    Verifier_of(verifier_num(username, password, salt))

\* WowSRPServer::register; salt is what rng.gen() draws
register(username, password, salt) ==
    [panic |-> from_credentials(username, password, salt).panic,
     verifier |-> from_credentials(username, password, salt).verifier,
     salt |-> salt]

\* WowSRPServer::calculate_b_pub: the value before .try_into().expect()
b_pub_num(b, v) ==
    LET fst == modpow(G, from_bytes_be(b), N)
        snd == from_bytes_le(v) * 3
    IN  (fst + snd) % N

\* WowSRPServer::calculate_b_pub
calculate_b_pub(b, v) ==
    LET bytes == to_bytes_le(b_pub_num(b, v))
    IN  IF try_into_ok(bytes) THEN [panic |-> FALSE, b_pub |-> bytes]
        ELSE [panic |-> TRUE, b_pub |-> <<>>]

\* WowSRPServer::new
WowSRPServer_new(username, salt, verifier) ==
    LET bp == calculate_b_pub(PRIVATE_B, verifier)
    IN  [panic         |-> bp.panic,
         salt          |-> salt,
         verifier      |-> verifier,
         identity_hash |-> Sha1(StrBytes(username)),
         b             |-> PRIVATE_B,
         b_pub         |-> bp.b_pub]

\* WowSRPServer::derive_session_key (two digests, interleaved)
derive_session_key(premaster_secret) ==
    LET half  == SrpWidth \div 2
        left  == [i \in 1..half |-> premaster_secret[2 * i - 1]]
        right == [i \in 1..half |-> premaster_secret[2 * i]]
        nz    == {i \in 1..Len(premaster_secret) : premaster_secret[i] # 0}
        first == CHOOSE i \in nz : \A j \in nz : i <= j
        start == (IF nz = {} THEN Len(premaster_secret) ELSE first) \div 2
    IN  <<Sha1(SubSeq(left, start + 1, half)), Sha1(SubSeq(right, start + 1, half))>>

\* WowSRPServer::get_server_proof
get_server_proof(a_pub, client_proof, session_key) ==
    Sha1(a_pub \o <<client_proof>> \o session_key)

\* verify_challenge_response as it would be with b read little-endian, unlike
\* calculate_b_pub
verify_challenge_response_b_le(self, a_pub, client_m) ==
    LET a_pub_num == from_bytes_le(a_pub)
        verifier  == from_bytes_le(self.verifier)
        b         == from_bytes_le(self.b)
        u         == from_bytes_le(<<Sha1(a_pub \o self.b_pub)>>)
        premaster_secret == modpow(a_pub_num * modpow(verifier, u, N), b, N)
        s_bytes   == to_bytes_le(premaster_secret)
        session_key == derive_session_key(s_bytes)
        hn_xor_hg == xor(Sha1(to_bytes_le(N)), Sha1(to_bytes_le(G)))
        server_m  == Sha1(<<hn_xor_hg, self.identity_hash, self.salt>>
                          \o a_pub \o self.b_pub \o session_key)
    IN  IF a_pub_num % N = 0 THEN [res |-> "none", key |-> <<>>]
        ELSE IF ~try_into_ok(s_bytes) THEN [res |-> "panic", key |-> <<>>]
        ELSE IF server_m = client_m THEN [res |-> "some", key |-> session_key]
        ELSE [res |-> "none", key |-> <<>>]

\* verify_challenge_response as it would be without the test of A mod N
verify_challenge_response_any_a(self, a_pub, client_m) ==
    LET a_pub_num == from_bytes_le(a_pub)
        verifier  == from_bytes_le(self.verifier)
        b         == from_bytes_be(self.b)
        u         == from_bytes_le(<<Sha1(a_pub \o self.b_pub)>>)
        premaster_secret == modpow(a_pub_num * modpow(verifier, u, N), b, N)
        s_bytes   == to_bytes_le(premaster_secret)
        session_key == derive_session_key(s_bytes)
        hn_xor_hg == xor(Sha1(to_bytes_le(N)), Sha1(to_bytes_le(G)))
        server_m  == Sha1(<<hn_xor_hg, self.identity_hash, self.salt>>
                          \o a_pub \o self.b_pub \o session_key)
    IN  IF ~try_into_ok(s_bytes) THEN [res |-> "panic", key |-> <<>>]
        ELSE IF server_m = client_m THEN [res |-> "some", key |-> session_key]
        ELSE [res |-> "none", key |-> <<>>]

\* WowSRPServer::verify_challenge_response
\* result: "none" | "some" (with key) | "panic"
verify_challenge_response(self, a_pub, client_m) ==
    LET a_pub_num == from_bytes_le(a_pub)
        verifier  == from_bytes_le(self.verifier)
        b         == from_bytes_be(self.b)
        u         == from_bytes_le(<<Sha1(a_pub \o self.b_pub)>>)
        premaster_secret == modpow(a_pub_num * modpow(verifier, u, N), b, N)
        s_bytes   == to_bytes_le(premaster_secret)
        session_key == derive_session_key(s_bytes)
        hn_xor_hg == xor(Sha1(to_bytes_le(N)), Sha1(to_bytes_le(G)))
        server_m  == Sha1(<<hn_xor_hg, self.identity_hash, self.salt>>
                          \o a_pub \o self.b_pub \o session_key)
    IN  IF a_pub_num % N = 0 THEN [res |-> "none", key |-> <<>>]
        ELSE IF ~try_into_ok(s_bytes) THEN [res |-> "panic", key |-> <<>>]
        ELSE IF server_m = client_m THEN [res |-> "some", key |-> session_key]
        ELSE [res |-> "none", key |-> <<>>]

\* ------------------------------------------------------------------------
\* game/accounts.rs: ConnectToken, ReconnectToken, LoginFailure
\* ------------------------------------------------------------------------

\* ConnectToken::new
ConnectToken_new(username, salt, verifier) ==
    [server |-> WowSRPServer_new(username, salt, verifier), security_flags |-> 0]

\* ConnectToken::accept, the map over verify_challenge_response's Option
accept_map(v, public_key, client_proof) ==
    CASE v.res = "some" ->
           [res |-> "ok",
            server_proof |-> get_server_proof(public_key, client_proof, v.key),
            session_key |-> v.key]
      [] v.res = "panic" ->
           [res |-> "panic", server_proof |-> 0, session_key |-> <<>>]
      [] OTHER ->
           [res |-> "IncorrectPassword", server_proof |-> 0, session_key |-> <<>>]

\* ConnectToken::accept
\* result: "ok" (server proof and session key) | "IncorrectPassword" | "panic"
ConnectToken_accept(token, public_key, client_proof) ==
    accept_map(verify_challenge_response(token.server, public_key, client_proof),
               public_key, client_proof)

\* ReconnectToken::new; the random reconnect_proof is the argument nonce
ReconnectToken_new(username, ban_status, session_key, nonce) ==
    [reconnect_proof |-> nonce,
     username        |-> username,
     ban_status      |-> ban_status,
     session_key     |-> session_key]

\* ReconnectToken::accept as it would be with the server's reconnect_proof left
\* out of the digest: a proof computed for another challenge is accepted
ReconnectToken_accept_without_nonce(token, proof_data, client_proof) ==
    LET server_proof == Sha1(StrBytes(token.username) \o <<proof_data>>
                             \o token.session_key)
    IN  IF server_proof = client_proof THEN "ok" ELSE "IncorrectPassword"

\* ReconnectToken::accept
ReconnectToken_accept(token, proof_data, client_proof) ==
    LET server_proof == Sha1(StrBytes(token.username) \o <<proof_data>>
                             \o <<token.reconnect_proof>> \o token.session_key)
    IN  IF server_proof = client_proof THEN "ok" ELSE "IncorrectPassword"

\* ------------------------------------------------------------------------
\* protocol/packets.rs: opcodes, return codes, frames
\* ------------------------------------------------------------------------

\* enum AuthCommand
CMD_ConnectRequest == 0
CMD_AuthLogonProof == 1
CMD_AuthReconnectChallenge == 2
CMD_AuthReconnectProof == 3
CMD_RealmList == 16
CMD_TransferInitiate == 48

\* enum ReturnCode
RC_Success == 0
RC_Failed == 1
RC_Banned == 3
RC_UnknownAccount == 4
RC_IncorrectPassword == 5
RC_VersionInvalid == 9
RC_Suspended == 12

\* impl From<LoginFailure> for ReturnCode
ReturnCode_from(f) ==
    CASE f = "Suspended"         -> RC_Suspended
      [] f = "Banned"            -> RC_Banned
      [] f = "UnknownAccount"    -> RC_UnknownAccount
      [] f = "IncorrectPassword" -> RC_IncorrectPassword
      [] f = "DatabaseError"     -> RC_Failed

\* const VERSION_CHALLENGE
VERSION_CHALLENGE ==
    <<186, 163, 30, 153, 160, 11, 33, 87, 252, 55, 63, 179, 105, 205, 210, 241>>

\* the build the handlers accept
BUILD == 12340

\* size_of::<ConnectRequest>()
SIZE_ConnectRequest == 33

\* size_of::<ConnectProof>()
SIZE_ConnectProof == 74

\* size_of::<ReconnectProof>()
SIZE_ReconnectProof == 57

\* the username buffer of the request handlers: [0u8; 16]
USERNAME_BUFFER == 16

\* a u16 in little-endian bytes (fixint encoding)
u16_le(n) == <<n % 256, (n \div 256) % 256>>

\* ReplyPacket<ConnectChallenge> under varint encoding:
\* command, unknown, status, B, len g, g, len N, N, salt, challenge, flags
ConnectChallenge_frame(token) ==
    LET g == to_bytes_le(G)
        n == to_bytes_le(N)
    IN  <<CMD_ConnectRequest, 0, RC_Success>>
        \o token.server.b_pub
        \o <<Len(g)>> \o g
        \o <<Len(n)>> \o n
        \o <<token.server.salt>>
        \o VERSION_CHALLENGE
        \o <<token.security_flags>>

\* (AuthCommand::AuthLogonProof, ConnectProofResponse) under fixint encoding
ConnectProofResponse_frame(server_proof) ==
    <<CMD_AuthLogonProof, 0, server_proof>>
    \o <<0, 0, 128, 0>> \o <<0, 0, 0, 0>> \o <<0, 0>>

\* (AuthReconnectChallenge, Success, reconnect_proof, VERSION_CHALLENGE)
ReconnectChallenge_frame(token) ==
    <<CMD_AuthReconnectChallenge, RC_Success, token.reconnect_proof>>
    \o VERSION_CHALLENGE

\* (AuthReconnectProof, Success, 0u16)
ReconnectProofResponse_frame == <<CMD_AuthReconnectProof, RC_Success, 0, 0>>

\* the realms the Realm Store serves (RealmList::realms)
REALMS ==
    << [realm_type |-> 1, flags |-> 0, name |-> <<66>>, socket |-> <<49, 58, 56>>,
        timezone |-> 8, id |-> 2] >>

\* Realm::from_realm and its wow_bincode serialisation
Realm_bytes(r) ==
    <<r.realm_type, 0, r.flags>> \o r.name \o <<0>> \o r.socket \o <<0>>
    \o <<0, 0, 0, 0>> \o <<0, r.timezone, r.id % 256>>

RECURSIVE Realms_bytes(_)
Realms_bytes(rs) ==
    IF rs = <<>> THEN <<>> ELSE Realm_bytes(Head(rs)) \o Realms_bytes(Tail(rs))

\* RealmListResponse::from_realms
RealmListResponse_from_realms(rs) ==
    [packet_size |-> (4 + 2 + (Len(Realms_bytes(rs)) % 65536) + 2) % 65536,
     realm_count |-> Len(rs) % 65536]

\* RealmListResponse::from_realms: whether `4 + 2 + len as u16 + 2` leaves the
\* range of u16 (a panic where overflow is checked, a wrap-around where not)
from_realms_overflows(rs) == 4 + 2 + (Len(Realms_bytes(rs)) % 65536) + 2 > 65535

\* the packet handle_realmlist builds
RealmListResponse_frame(rs) ==
    LET resp == RealmListResponse_from_realms(rs)
    IN  <<CMD_RealmList>> \o u16_le(resp.packet_size) \o <<0, 0, 0, 0>>
        \o u16_le(resp.realm_count) \o Realms_bytes(rs) \o <<16, 0>>

\* ------------------------------------------------------------------------
\* State
\* ------------------------------------------------------------------------

VARIABLES
    accounts,   \* the account table: username -> row (with its account_banned row)
    phase,      \* the acceptor: "listening" | "open" | "returned_ok" |
                \* "returned_err" | "panicked"
    state,      \* connect_loop's RequestState of the open connection
    trace,      \* what the open connection has done so far, in order
    conns       \* connections accepted so far

\* AuthServer.heartbeat, the two tasks around it, and start_server
VARIABLES
    clock,      \* Instant::now(), in units of 1 / SubPerSec seconds
    heartbeat,  \* RwLock<HashMap<u8, Instant>>: realm id -> last-seen instant
    lock,       \* who holds the write guard of heartbeat: "free" | "updater"
    buffer,     \* world_server_heartbeat's receive buffer
    received,   \* the datagram recv returned last, <<>> after an Err
    dgrams,     \* datagrams received so far
    upc,        \* where realmlist_updater is: "waiting" | "ticked" | "locked" |
                \* "calling" | "returned_err" | "panicked"
    now,        \* the instant zipped with the updater's current tick
    data,       \* the update list the updater built last
    nextTick,   \* when the updater's interval fires next
    lastOk,     \* whether the last update_status call returned Ok
    tasks,      \* start_server's three tasks: name -> "running" | "err" | "panic" |
                \* "ok" | "cancelled"
    exit        \* the process: "running" | "failure" | "success"

\* calls of the library functions and of create_account, one at a time
VARIABLES
    call,       \* the call made last: its function, arguments and result
    inserted    \* the rows create_account has inserted into account, in order

\* WorldServer and its World
VARIABLES
    wphase,     \* accept_clients: "listening" | "accepted" | "session" | "closed" |
                \* "returned_err" | "panicked"
    clients,    \* WorldServer.clients: ClientId -> Client.account ("" is None)
    sessions,   \* World.sessions: the ClientIds that have a Session
    channel,    \* World.sender / World.receiver: the packets sent and not received
    wtrace,     \* what the current connection has done so far, in order
    wconns,     \* connections accepted so far
    frames,     \* frames read on the current connection
    handled     \* what World::handle_packets did with the packet it received last

\* MySQLRealmList and the callers of realms()
VARIABLES
    rpc,          \* where each caller is in realms(): "idle" | "check" | "query" |
                  \* "join_left" | "join_right" | "join_pending" | "store" | "read"
    rnow,         \* the SystemTime each caller sampled on entry
    fetched,      \* the rows each caller's query returned
    held,         \* who holds the write guard of "realms" and of "next_update"
                  \* (0 is nobody)
    realms_cache, \* MySQLRealmList.realms: the ids of the cached realms
    next_update,  \* MySQLRealmList.next_update
    wall          \* SystemTime::now(), in seconds

\* the Sessions of the world server and the tasks that send on them
VARIABLES
    encrypted,  \* Session.encryption: ClientId -> headers encrypted so far
    written,    \* Session.stream: ClientId -> the packets written, each named
                \* by the position its header took in the cipher stream
    finalizing, \* the accept task inside create_session: the finalize packets
                \* sent, the write_packet in flight, and the packets of the
                \* first frame that wait behind the AuthSession
    ponging     \* the World packet handler inside send_packet(Pong): the
                \* session it sends on and the write_packet in flight

authVars == <<accounts, phase, state, trace, conns>>

serverVars == <<clock, heartbeat, lock, buffer, received, dgrams, upc, now, data,
                nextTick, lastOk, tasks, exit>>

libVars == <<call, inserted>>

worldVars == <<wphase, clients, sessions, channel, wtrace, wconns, frames, handled>>

realmVars == <<rpc, rnow, fetched, held, realms_cache, next_update, wall>>

sessionVars == <<encrypted, written, finalizing, ponging>>

\* what the acceptor and its connection leave alone
notAuthVars == <<serverVars, libVars, worldVars, realmVars, sessionVars>>

\* what the receiver, the updater and start_server leave alone
notServerVars == <<authVars, libVars, worldVars, realmVars, sessionVars>>

\* what a library call leaves alone
notLibVars == <<authVars, serverVars, worldVars, realmVars, sessionVars>>

\* what the world server leaves alone; it reads the account table
notWorldVars == <<phase, state, trace, conns, serverVars, libVars, realmVars,
                  sessionVars>>

\* what a call of realms() leaves alone
notRealmVars == <<authVars, serverVars, libVars, worldVars, sessionVars>>

\* what a send on a Session leaves alone, the world server's state apart
notSessionVars == <<phase, state, trace, conns, serverVars, libVars, realmVars>>

vars == <<accounts, phase, state, trace, conns, clock, heartbeat, lock, buffer,
          received, dgrams, upc, now, data, nextTick, lastOk, tasks, exit,
          call, inserted, wphase, clients, sessions, channel, wtrace, wconns,
          frames, handled, rpc, rnow, fetched, held, realms_cache, next_update,
          wall, encrypted, written, finalizing, ponging>>

NoKey == <<>>

\* the accept task outside create_session
NotFinalizing == [stage |-> "none", sent |-> 0, pos |-> 0, rest |-> <<>>]

\* the World packet handler outside send_packet
NotPonging == [client |-> 0, stage |-> "idle", pos |-> 0]

\* the rows create_account has stored: WowSRPServer::register with a salt
AccountRow(username, password, salt, ban) ==
    [salt        |-> salt,
     verifier    |-> from_credentials(username, password, salt).verifier,
     session_key |-> NoKey,
     ban         |-> ban]

\* ------------------------------------------------------------------------
\* What a client can send
\* ------------------------------------------------------------------------

\* the identifier tail of a request: its text, identifier_length, UTF-8 validity
Ident(name, len, utf8) == [name |-> name, len |-> len, utf8 |-> utf8]

NoIdent == Ident("", 0, TRUE)

\* one message on the wire: opcode, the bytes the body read returned, fields
Msg(op, len, build, ident, a_pub, proof, proof_data) ==
    [op |-> op, len |-> len, build |-> build, ident |-> ident,
     a_pub |-> a_pub, proof |-> proof, data |-> proof_data]

NoMsg == Msg(255, 0, 0, NoIdent, <<>>, 0, 0)

\* the messages a client sends: requests with every build and identifier,
\* proofs, and messages that are out of place, unknown or cut short
ClientMsgs ==
    { Msg(op, SIZE_ConnectRequest, build, id, <<>>, 0, 0) :
        op \in {CMD_ConnectRequest, CMD_AuthReconnectChallenge},
        build \in {BUILD, BUILD - 1},
        id \in { Ident("ARLYON", 6, TRUE), Ident("BOB", 3, TRUE),
                 Ident("CAROL", 5, TRUE), Ident("DAVE", 4, TRUE),
                 Ident("NOBODY", 6, TRUE), Ident("BADUTF8", 2, FALSE),
                 Ident("SEVENTEENLETTERS", 17, TRUE) } }
    \cup { Msg(CMD_AuthLogonProof, SIZE_ConnectProof, 0, NoIdent, wire_bytes(a), m, 0) :
              a \in 0..(Pow(SrpRadix, SrpWidth) - 1), m \in 0..(HashMod - 1) }
    \cup { Msg(CMD_AuthReconnectProof, SIZE_ReconnectProof, 0, NoIdent, <<>>, m, d) :
              m \in 0..(HashMod - 1), d \in 0..(NonceValues - 1) }
    \cup { Msg(CMD_RealmList, 0, 0, NoIdent, <<>>, 0, 0),
           Msg(CMD_TransferInitiate, 0, 0, NoIdent, <<>>, 0, 0),
           Msg(85, 0, 0, NoIdent, <<>>, 0, 0),
           Msg(CMD_ConnectRequest, 0, 0, NoIdent, <<>>, 0, 0),
           Msg(CMD_AuthLogonProof, SIZE_ConnectProof - 1, 0, NoIdent, <<>>, 0, 0) }

\* ------------------------------------------------------------------------
\* The trace of a connection
\* ------------------------------------------------------------------------

Event(ev, what, user, msg, bytes, ok) ==
    [ev |-> ev, what |-> what, user |-> user, msg |-> msg, bytes |-> bytes, ok |-> ok]

\* read_packet returned: what is the Message variant, or "err"
EvRead(what, msg) == Event("read", what, "", msg, <<>>, what # "err")

\* a query of the account table ran: what is the query, ok whether it gave a row
EvQuery(what, user, ok) == Event("query", what, user, NoMsg, <<>>, ok)

\* the UPDATE of complete_login ran for the row of user
EvUpdate(user, key, ok) == Event("update", "session_key", user, NoMsg, key, ok)

\* stream.write ran: what is the frame written, ok whether the socket took it
EvWrite(what, frame, ok) == Event("write", what, "", NoMsg, frame, ok)

\* ------------------------------------------------------------------------
\* protocol/mod.rs: read_packet
\* ------------------------------------------------------------------------

\* read_packet as it would be without the comparison of read_len with
\* command_len: a body of any length is handed to the decoder
read_packet_any_length(msg) ==
    CASE msg.op = CMD_RealmList -> "RealmList"
      [] msg.op = CMD_ConnectRequest -> "ConnectRequest"
      [] msg.op = CMD_AuthLogonProof -> "ConnectProof"
      [] msg.op = CMD_AuthReconnectChallenge -> "ReconnectRequest"
      [] msg.op = CMD_AuthReconnectProof -> "ReconnectProof"
      [] OTHER -> "err"

\* read_packet: "err" or the Message variant decoded
read_packet(msg) ==
    IF msg.op \notin ({0, 1, 2, 3, 16, 48, 49, 50, 51, 52}) THEN "err"
    ELSE IF msg.op = CMD_RealmList THEN "RealmList"
    ELSE IF msg.op \notin {CMD_ConnectRequest, CMD_AuthLogonProof,
                           CMD_AuthReconnectChallenge, CMD_AuthReconnectProof}
         THEN "err"
    ELSE LET command_len ==
                 CASE msg.op = CMD_ConnectRequest -> SIZE_ConnectRequest
                   [] msg.op = CMD_AuthLogonProof -> SIZE_ConnectProof
                   [] msg.op = CMD_AuthReconnectChallenge -> SIZE_ConnectRequest
                   [] msg.op = CMD_AuthReconnectProof -> SIZE_ReconnectProof
         IN  IF msg.len # command_len THEN "err"
             ELSE CASE msg.op = CMD_ConnectRequest -> "ConnectRequest"
                    [] msg.op = CMD_AuthLogonProof -> "ConnectProof"
                    [] msg.op = CMD_AuthReconnectChallenge -> "ReconnectRequest"
                    [] msg.op = CMD_AuthReconnectProof -> "ReconnectProof"

\* read_packet: the bytes it takes from the stream for msg: the opcode, then
\* what the one read of the body returned; no body is read for RealmList or
\* for a command it does not support
bytes_read(msg) ==
    IF msg.op \in {CMD_ConnectRequest, CMD_AuthLogonProof,
                   CMD_AuthReconnectChallenge, CMD_AuthReconnectProof}
    THEN 1 + msg.len
    ELSE 1

\* handle_connect_request and handle_reconnect_request: the bytes of the
\* identifier they read from the stream, after the test of the build
identifier_read(request) ==
    IF request.build # BUILD THEN 0
    ELSE IF request.ident.len > USERNAME_BUFFER THEN 0
    ELSE request.ident.len

\* ------------------------------------------------------------------------
\* mysql-auth/accounts.rs: MySQLAccountService
\* ------------------------------------------------------------------------

\* the longest username and password create_account takes, in bytes
MAX_CREDENTIAL_LEN == 16

\* u8::to_ascii_uppercase
byte_to_ascii_uppercase(c) == IF c >= 97 /\ c <= 122 THEN c - 32 ELSE c

\* str::to_ascii_uppercase
to_ascii_uppercase(str) == [i \in 1..Len(str) |-> byte_to_ascii_uppercase(str[i])]

\* create_account as it would be without the conversion to upper case
create_account_as_typed(table, username, password, salt, insertOk, charsOk) ==
    IF Len(username) > MAX_CREDENTIAL_LEN
    THEN [res |-> "UsernameTooLong", table |-> table]
    ELSE IF Len(password) > MAX_CREDENTIAL_LEN
    THEN [res |-> "PasswordTooLong", table |-> table]
    ELSE IF from_credentials_of_bytes(username, password, salt).panic
    THEN [res |-> "panic", table |-> table]
    ELSE IF ~insertOk
    THEN [res |-> "PersistError", table |-> table]
    ELSE [res |-> IF charsOk THEN "ok" ELSE "PersistError",
          table |-> Append(table,
                      [username |-> username,
                       salt |-> salt,
                       verifier |-> from_credentials_of_bytes(
                                        username, password, salt).verifier])]

\* create_account; salt is the one register draws, insertOk and charsOk are
\* whether the INSERT into account and the one into realmcharacters succeed
create_account(table, username, password, salt, insertOk, charsOk) ==
    IF Len(username) > MAX_CREDENTIAL_LEN
    THEN [res |-> "UsernameTooLong", table |-> table]
    ELSE IF Len(password) > MAX_CREDENTIAL_LEN
    THEN [res |-> "PasswordTooLong", table |-> table]
    ELSE IF from_credentials_of_bytes(to_ascii_uppercase(username),
                                      to_ascii_uppercase(password), salt).panic
    THEN [res |-> "panic", table |-> table]
    ELSE IF ~insertOk
    THEN [res |-> "PersistError", table |-> table]
    ELSE [res |-> IF charsOk THEN "ok" ELSE "PersistError",
          table |-> Append(table,
                      [username |-> to_ascii_uppercase(username),
                       salt |-> salt,
                       verifier |-> from_credentials_of_bytes(
                                        to_ascii_uppercase(username),
                                        to_ascii_uppercase(password), salt).verifier])]

\* get_by_username: fetch_one; the query selects NULL as ban_status
get_by_username(acc, username, dbOk) ==
    IF dbOk /\ username \in DOMAIN acc
    THEN [ok |-> TRUE, username |-> username, salt |-> acc[username].salt,
          verifier |-> acc[username].verifier, ban_status |-> "None"]
    ELSE [ok |-> FALSE, username |-> username, salt |-> 0,
          verifier |-> <<>>, ban_status |-> "None"]

\* initiate_login, the match over get_by_username's Result
initiate_login_match(account) ==
    IF account.ok /\ account.ban_status # "None"
    THEN [res |-> IF account.ban_status = "Temporary" THEN "Suspended" ELSE "Banned",
          found |-> account.ok, token |-> <<>>]
    ELSE IF ~account.ok
    THEN [res |-> "UnknownAccount", found |-> account.ok, token |-> <<>>]
    ELSE IF ConnectToken_new(account.username, account.salt,
                             account.verifier).server.panic
    THEN [res |-> "panic", found |-> account.ok, token |-> <<>>]
    ELSE [res |-> "ok", found |-> account.ok,
          token |-> ConnectToken_new(account.username, account.salt, account.verifier)]

\* initiate_login; result: "ok" (token) | a LoginFailure | "panic"
initiate_login(acc, username, dbOk) ==
    initiate_login_match(get_by_username(acc, username, dbOk))

\* initiate_relogin as it would be without `session_key_auth IS NOT NULL` in
\* the query and with a missing key defaulted instead of refused
initiate_relogin_without_key_check(acc, username, dbOk, nonce) ==
    IF ~(dbOk /\ username \in DOMAIN acc)
    THEN [res |-> "DatabaseError", token |-> <<>>]
    ELSE [res |-> "ok",
          token |-> ReconnectToken_new(username, "None",
                                       acc[username].session_key, nonce)]

\* initiate_relogin; nonce is the reconnect_proof ReconnectToken::new draws
initiate_relogin(acc, username, dbOk, nonce) ==
    LET found == dbOk /\ username \in DOMAIN acc
                   /\ acc[username].session_key # NoKey
        ban_status == CASE acc[username].ban = "permanent" -> "Permanent"
                        [] acc[username].ban = "temporary" -> "Temporary"
                        [] OTHER -> "None"
    IN  IF ~found THEN [res |-> "DatabaseError", token |-> <<>>]
        ELSE IF Len(acc[username].session_key) # 2
        THEN [res |-> "DatabaseError", token |-> <<>>]
        ELSE [res |-> "ok",
              token |-> ReconnectToken_new(username, ban_status,
                                           acc[username].session_key, nonce)]

\* the account complete_login's UPDATE names
LOGIN_UPDATE_USER == "ARLYON"

\* complete_login as it would be with the UPDATE's Result dropped instead of
\* mapped to DatabaseError: a failed write still answers with the server proof
complete_login_update_unchecked(acc, a, dbOk) ==
    CASE a.res = "panic" ->
           [res |-> "panic", server_proof |-> 0, accounts |-> acc, events |-> <<>>]
      [] a.res = "IncorrectPassword" ->
           [res |-> "IncorrectPassword", server_proof |-> 0, accounts |-> acc,
            events |-> <<>>]
      [] OTHER ->
           [res |-> "ok", server_proof |-> a.server_proof,
            accounts |-> IF dbOk /\ LOGIN_UPDATE_USER \in DOMAIN acc
                         THEN [acc EXCEPT ![LOGIN_UPDATE_USER].session_key =
                                              a.session_key]
                         ELSE acc,
            events |-> <<EvUpdate(LOGIN_UPDATE_USER, a.session_key, dbOk)>>]

\* complete_login after token.accept(): the `?`, then the UPDATE
complete_login_update(acc, a, dbOk) ==
    CASE a.res = "panic" ->
           [res |-> "panic", server_proof |-> 0, accounts |-> acc, events |-> <<>>]
      [] a.res = "IncorrectPassword" ->
           [res |-> "IncorrectPassword", server_proof |-> 0, accounts |-> acc,
            events |-> <<>>]
      [] a.res = "ok" /\ ~dbOk ->
           [res |-> "DatabaseError", server_proof |-> 0, accounts |-> acc,
            events |-> <<EvUpdate(LOGIN_UPDATE_USER, a.session_key, FALSE)>>]
      [] OTHER ->
           [res |-> "ok", server_proof |-> a.server_proof,
            accounts |-> IF LOGIN_UPDATE_USER \in DOMAIN acc
                         THEN [acc EXCEPT ![LOGIN_UPDATE_USER].session_key =
                                              a.session_key]
                         ELSE acc,
            events |-> <<EvUpdate(LOGIN_UPDATE_USER, a.session_key, TRUE)>>]

\* complete_login; result: "ok" (server proof) | a LoginFailure | "panic"
complete_login(acc, token, public_key, client_proof, dbOk) ==
    complete_login_update(acc, ConnectToken_accept(token, public_key, client_proof),
                          dbOk)

\* complete_relogin
complete_relogin(token, proof_data, client_proof) ==
    ReconnectToken_accept(token, proof_data, client_proof)

\* ------------------------------------------------------------------------
\* authserver.rs: RequestState and the handlers
\* ------------------------------------------------------------------------

Start == [tag |-> "Start"]
ConnectChallenge(token) == [tag |-> "ConnectChallenge", token |-> token]
ReconnectChallenge(token) == [tag |-> "ReconnectChallenge", token |-> token]
Realmlist == [tag |-> "Realmlist"]
Rejected(command, reason) == [tag |-> "Rejected", command |-> command, reason |-> reason]
Done == [tag |-> "Done"]

\* what a handler did: Ok(state), Err(..) through `?`, or a panic
HandlerOk(st, acc, events) ==
    [kind |-> "ok", state |-> st, accounts |-> acc, events |-> events]
HandlerErr(acc, events) ==
    [kind |-> "err", state |-> Done, accounts |-> acc, events |-> events]
HandlerPanic(acc, events) ==
    [kind |-> "panic", state |-> Done, accounts |-> acc, events |-> events]

\* handle_connect_request, from the match over initiate_login's Result on
connect_request_match(login, username, acc, sockOk) ==
    CASE login.res = "ok" ->
           IF sockOk
           THEN HandlerOk(ConnectChallenge(login.token), acc,
                          <<EvQuery("get_by_username", username, login.found),
                            EvWrite("ConnectChallenge",
                                    ConnectChallenge_frame(login.token), TRUE)>>)
           ELSE HandlerErr(acc,
                          <<EvQuery("get_by_username", username, login.found),
                            EvWrite("ConnectChallenge",
                                    ConnectChallenge_frame(login.token), FALSE)>>)
      [] login.res = "panic" ->
           HandlerPanic(acc, <<EvQuery("get_by_username", username, login.found)>>)
      [] OTHER ->
           HandlerOk(Rejected(CMD_ConnectRequest, ReturnCode_from(login.res)), acc,
                     <<EvQuery("get_by_username", username, login.found)>>)

\* handle_connect_request as it would be with the build compared after the
\* account lookup instead of before it
handle_connect_request_lookup_first(request, acc, dbOk, sockOk) ==
    IF request.ident.len > USERNAME_BUFFER
    THEN HandlerPanic(acc, <<>>)
    ELSE IF ~request.ident.utf8
    THEN HandlerOk(Rejected(CMD_ConnectRequest, RC_Failed), acc, <<>>)
    ELSE IF request.build # BUILD
    THEN HandlerOk(Rejected(CMD_ConnectRequest, RC_VersionInvalid), acc,
                   <<EvQuery("get_by_username", request.ident.name,
                             dbOk /\ request.ident.name \in DOMAIN acc)>>)
    ELSE connect_request_match(initiate_login(acc, request.ident.name, dbOk),
                               request.ident.name, acc, sockOk)

\* handle_connect_request
handle_connect_request(request, acc, dbOk, sockOk) ==
    IF request.build # BUILD
    THEN HandlerOk(Rejected(CMD_ConnectRequest, RC_VersionInvalid), acc, <<>>)
    ELSE IF request.ident.len > USERNAME_BUFFER
    THEN HandlerPanic(acc, <<>>)
    ELSE IF ~request.ident.utf8
    THEN HandlerOk(Rejected(CMD_ConnectRequest, RC_Failed), acc, <<>>)
    ELSE connect_request_match(initiate_login(acc, request.ident.name, dbOk),
                               request.ident.name, acc, sockOk)

\* handle_connect_proof, the match over complete_login's Result
connect_proof_match(login, sockOk) ==
    CASE login.res = "ok" ->
           IF sockOk
           THEN HandlerOk(Realmlist, login.accounts,
                     login.events \o
                     <<EvWrite("ConnectProofResponse",
                               ConnectProofResponse_frame(login.server_proof), TRUE)>>)
           ELSE HandlerErr(login.accounts,
                     login.events \o
                     <<EvWrite("ConnectProofResponse",
                               ConnectProofResponse_frame(login.server_proof), FALSE)>>)
      [] login.res = "panic" -> HandlerPanic(login.accounts, login.events)
      [] OTHER ->
           HandlerOk(Rejected(CMD_AuthLogonProof, ReturnCode_from(login.res)),
                     login.accounts, login.events)

\* handle_connect_proof
handle_connect_proof(proof, acc, token, dbOk, sockOk) ==
    connect_proof_match(complete_login(acc, token, proof.a_pub, proof.proof, dbOk),
                        sockOk)

\* handle_reconnect_request, from the match over initiate_relogin's Result on
reconnect_request_match(relogin, username, acc, sockOk) ==
    IF relogin.res = "ok"
    THEN IF sockOk
         THEN HandlerOk(ReconnectChallenge(relogin.token), acc,
                        <<EvQuery("relogin", username, TRUE),
                          EvWrite("ReconnectChallenge",
                                  ReconnectChallenge_frame(relogin.token), TRUE)>>)
         ELSE HandlerErr(acc,
                        <<EvQuery("relogin", username, TRUE),
                          EvWrite("ReconnectChallenge",
                                  ReconnectChallenge_frame(relogin.token), FALSE)>>)
    ELSE HandlerOk(Rejected(CMD_AuthReconnectChallenge, ReturnCode_from(relogin.res)),
                   acc, <<EvQuery("relogin", username, FALSE)>>)

\* handle_reconnect_request
handle_reconnect_request(request, acc, dbOk, sockOk, nonce) ==
    IF request.build # BUILD
    THEN HandlerOk(Rejected(CMD_AuthReconnectChallenge, RC_VersionInvalid), acc, <<>>)
    ELSE IF request.ident.len > USERNAME_BUFFER
    THEN HandlerPanic(acc, <<>>)
    ELSE IF ~request.ident.utf8
    THEN HandlerOk(Rejected(CMD_AuthReconnectChallenge, RC_Failed), acc, <<>>)
    ELSE reconnect_request_match(
             initiate_relogin(acc, request.ident.name, dbOk, nonce),
             request.ident.name, acc, sockOk)

\* handle_reconnect_proof as it would be with complete_relogin's Result
\* ignored: any ReconnectProof is answered with the response
handle_reconnect_proof_unchecked(proof, acc, token, sockOk) ==
    IF sockOk
    THEN HandlerOk(Realmlist, acc,
                   <<EvWrite("ReconnectProofResponse",
                             ReconnectProofResponse_frame, TRUE)>>)
    ELSE HandlerErr(acc,
                   <<EvWrite("ReconnectProofResponse",
                             ReconnectProofResponse_frame, FALSE)>>)

\* handle_reconnect_proof
handle_reconnect_proof(proof, acc, token, sockOk) ==
    IF complete_relogin(token, proof.data, proof.proof) = "ok"
    THEN IF sockOk
         THEN HandlerOk(Realmlist, acc,
                        <<EvWrite("ReconnectProofResponse",
                                  ReconnectProofResponse_frame, TRUE)>>)
         ELSE HandlerErr(acc,
                        <<EvWrite("ReconnectProofResponse",
                                  ReconnectProofResponse_frame, FALSE)>>)
    ELSE HandlerOk(Rejected(CMD_AuthReconnectChallenge,
                            ReturnCode_from("IncorrectPassword")),
                   acc, <<>>)

\* handle_realmlist
handle_realmlist(acc, sockOk) ==
    IF sockOk
    THEN HandlerOk(Done, acc,
                   <<EvWrite("RealmListResponse", RealmListResponse_frame(REALMS), TRUE)>>)
    ELSE HandlerErr(acc,
                   <<EvWrite("RealmListResponse", RealmListResponse_frame(REALMS), FALSE)>>)

\* the Rejected arm as it would be if the connection went back to Start after
\* the rejection instead of to Done
rejected_arm_restart(st, acc, sockOk) ==
    IF sockOk
    THEN HandlerOk(Start, acc, <<EvWrite("Rejected", <<st.command, st.reason>>, TRUE)>>)
    ELSE HandlerErr(acc, <<EvWrite("Rejected", <<st.command, st.reason>>, FALSE)>>)

\* connect_loop, the Rejected arm: serialises (command, reason) into two bytes
rejected_arm(st, acc, sockOk) ==
    IF sockOk
    THEN HandlerOk(Done, acc, <<EvWrite("Rejected", <<st.command, st.reason>>, TRUE)>>)
    ELSE HandlerErr(acc, <<EvWrite("Rejected", <<st.command, st.reason>>, FALSE)>>)

\* connect_loop, the arms that read a packet: the Message each state accepts
Accepts(st, message) ==
    CASE st.tag = "Start" -> message \in {"ConnectRequest", "ReconnectRequest"}
      [] st.tag = "ConnectChallenge" -> message = "ConnectProof"
      [] st.tag = "ReconnectChallenge" -> message = "ReconnectProof"
      [] st.tag = "Realmlist" -> message = "RealmList"
      [] OTHER -> FALSE

\* connect_loop, the match over read_packet's Result in a state that reads
read_match(message, st, msg, acc, dbOk, sockOk, nonce) ==
    IF message = "err" \/ ~Accepts(st, message)
    THEN HandlerErr(acc, <<>>)
    ELSE CASE message = "ConnectRequest" ->
                handle_connect_request(msg, acc, dbOk, sockOk)
           [] message = "ReconnectRequest" ->
                handle_reconnect_request(msg, acc, dbOk, sockOk, nonce)
           [] message = "ConnectProof" ->
                handle_connect_proof(msg, acc, st.token, dbOk, sockOk)
           [] message = "ReconnectProof" ->
                handle_reconnect_proof(msg, acc, st.token, sockOk)
           [] message = "RealmList" ->
                handle_realmlist(acc, sockOk)

\* connect_loop, one turn of the loop in a state that reads a packet
read_arm(st, msg, acc, dbOk, sockOk, nonce) ==
    read_match(read_packet(msg), st, msg, acc, dbOk, sockOk, nonce)

\* ------------------------------------------------------------------------
\* authserver.rs: world_server_heartbeat and realmlist_updater
\* ------------------------------------------------------------------------

\* clock units in one second: Instants are finer than as_secs()
SubPerSec == 2

\* realmlist_updater: stream::interval(Duration::from_secs(5))
TICK_SECS == 5

\* realmlist_updater: now.duration_since(*v).as_secs() > 15
OFFLINE_SECS == 15

\* world_server_heartbeat: let mut buffer = [0u8; 6]
HEARTBEAT_LEN == 6

\* socket.recv(&mut buffer): the datagram's first bytes over the buffer's, the
\* bytes past the datagram's end left as they were
recv(buf, d) ==
    [i \in 1..HEARTBEAT_LEN |-> IF i <= Len(d) THEN d[i] ELSE buf[i]]

\* wow_bincode().deserialize(&buffer) as (u8, u8, u32), fixint little-endian
deserialize_heartbeat(buf) ==
    [tag |-> buf[1], realm_id |-> buf[2],
     realm_pop |-> buf[3] + 256 * buf[4] + 65536 * buf[5] + 16777216 * buf[6]]

\* world_server_heartbeat, one turn of the loop: recvOk is whether recv
\* returned Ok; on Err the loop continues
heartbeat_turn(table, buf, d, recvOk, t) ==
    IF ~recvOk THEN [heartbeat |-> table, buffer |-> buf]
    ELSE IF deserialize_heartbeat(recv(buf, d)).tag = 0
    THEN [heartbeat |->
              [k \in DOMAIN table \cup {deserialize_heartbeat(recv(buf, d)).realm_id}
                 |-> IF k = deserialize_heartbeat(recv(buf, d)).realm_id
                     THEN t ELSE table[k]],
          buffer |-> recv(buf, d)]
    ELSE [heartbeat |-> table, buffer |-> recv(buf, d)]

\* Instant::duration_since (saturating)
duration_since(later, earlier) == IF later >= earlier THEN later - earlier ELSE 0

\* Duration::as_secs: whole seconds
as_secs(d) == d \div SubPerSec

\* the predicate of drain_filter as it would be with >= in place of >
is_stale_at_least(t, v) == as_secs(duration_since(t, v)) >= OFFLINE_SECS

\* the predicate of drain_filter
is_stale(t, v) == as_secs(duration_since(t, v)) > OFFLINE_SECS

\* the keys of a set of realm ids in a Vec (ascending here; a HashMap's order
\* is unspecified)
RECURSIVE KeysSeq(_)
KeysSeq(S) ==
    IF S = {} THEN <<>>
    ELSE LET k == CHOOSE x \in S : \A y \in S : x <= y
         IN  <<k>> \o KeysSeq(S \ {k})

\* .map(|(k, _)| (k, flag)) collected into data
Flagged(ks, flag) == [i \in 1..Len(ks) |-> <<ks[i], flag>>]

\* the block under the write guard as it would be with the keys collected
\* before the drain instead of after it
build_update_list_keys_first(write, t) ==
    LET drained == {k \in DOMAIN write : is_stale(t, write[k])}
    IN  [data |-> Flagged(KeysSeq(drained), "Offline")
                  \o Flagged(KeysSeq(DOMAIN write), "Recommended"),
         heartbeat |-> [k \in DOMAIN write \ drained |-> write[k]]]

\* the block under the write guard as it would be with a filter that reports
\* the stale entries and leaves them in the table
build_update_list_undrained(write, t) ==
    LET drained == {k \in DOMAIN write : is_stale(t, write[k])}
    IN  [data |-> Flagged(KeysSeq(drained), "Offline")
                  \o Flagged(KeysSeq(DOMAIN write \ drained), "Recommended"),
         heartbeat |-> write]

\* realmlist_updater, the block under the write guard: drain_filter, then keys()
build_update_list(write, t) ==
    LET drained == {k \in DOMAIN write : is_stale(t, write[k])}
    IN  [data |-> Flagged(KeysSeq(drained), "Offline")
                  \o Flagged(KeysSeq(DOMAIN write \ drained), "Recommended"),
         heartbeat |-> [k \in DOMAIN write \ drained |-> write[k]]]

\* the guard as it would be if it lived until the end of the loop body
lock_kept_after_build == "updater"

\* the write guard at the end of the block that builds data: dropped
lock_after_build == "free"

\* the updater as it would be with `?` on update_status's Result
after_update_status_propagated(ok) == IF ok THEN "waiting" ELSE "returned_err"

\* the updater after `self.realms.update_status(data).await;`: the Result is dropped
after_update_status(ok) == "waiting"

\* ------------------------------------------------------------------------
\* main.rs: start_server
\* ------------------------------------------------------------------------

TaskNames == {"auth", "heartbeat", "realmlist"}

\* three tasks awaited one after the other, as a plain join would
join_all(t) ==
    IF \A n \in TaskNames : t[n] # "running"
    THEN [tasks |-> t,
          exit |-> IF \A n \in TaskNames : t[n] = "ok" THEN "success" ELSE "failure"]
    ELSE [tasks |-> t, exit |-> "running"]

\* try_join!(a, b, c)? over the flattened handles, then main returns: the
\* first Err (an error or a panic of a task) ends start_server with Err, the
\* process exits with a failure and the runtime drops the tasks still running
try_join(t) ==
    IF \E n \in TaskNames : t[n] \in {"err", "panic"}
    THEN [tasks |-> [n \in TaskNames |->
                        IF t[n] = "running" THEN "cancelled" ELSE t[n]],
          exit |-> "failure"]
    ELSE IF \A n \in TaskNames : t[n] = "ok"
    THEN [tasks |-> t, exit |-> "success"]
    ELSE [tasks |-> t, exit |-> "running"]

\* ------------------------------------------------------------------------
\* The acceptor and the connection, step by step
\* ------------------------------------------------------------------------

Init ==
    /\ accounts = [u \in {"ARLYON", "BOB", "CAROL", "DAVE"} |->
                     CASE u = "ARLYON" -> AccountRow("ARLYON", "TEST", 1, "none")
                       [] u = "BOB"    -> AccountRow("BOB", "HUNTER", 2, "temporary")
                       [] u = "CAROL"  -> AccountRow("CAROL", "HUNTER", 2, "permanent")
                       [] u = "DAVE"   -> AccountRow("DAVE", "SECRET", 3, "none")]
    /\ phase = "listening"
    /\ state = Start
    /\ trace = <<>>
    /\ conns = 0
    /\ clock = 0
    /\ heartbeat = <<>>
    /\ lock = "free"
    /\ buffer = [i \in 1..HEARTBEAT_LEN |-> 0]
    /\ received = <<>>
    /\ dgrams = 0
    /\ upc = "waiting"
    /\ now = 0
    /\ data = <<>>
    /\ nextTick = TICK_SECS * SubPerSec
    /\ lastOk = TRUE
    /\ tasks = [n \in TaskNames |-> "running"]
    /\ exit = "running"
    /\ call = [fn |-> "none"]
    /\ inserted = <<>>
    /\ wphase = "listening"
    /\ clients = <<>>
    /\ sessions = {}
    /\ channel = <<>>
    /\ wtrace = <<>>
    /\ wconns = 0
    /\ frames = 0
    /\ handled = "none"
    /\ rpc = [c \in (1..MaxCallers) |-> "idle"]
    /\ rnow = [c \in (1..MaxCallers) |-> 0]
    /\ fetched = [c \in (1..MaxCallers) |-> <<>>]
    /\ held = [l \in {"realms", "next_update"} |-> 0]
    /\ realms_cache = <<>>
    /\ next_update = 0
    /\ wall = 0
    /\ encrypted = <<>>
    /\ written = <<>>
    /\ finalizing = NotFinalizing
    /\ ponging = NotPonging

\* the effect of one turn of connect_loop; first are the events before the handler
Apply(first, r) ==
    /\ accounts' = r.accounts
    /\ trace' = trace \o first \o r.events
    /\ conns' = conns
    /\ UNCHANGED notAuthVars
    /\ CASE r.kind = "ok"  -> phase' = "open" /\ state' = r.state
         [] r.kind = "err" -> phase' = "returned_err" /\ state' = state
         [] OTHER          -> phase' = "panicked" /\ state' = state

\* authentication: connections.next() yields a stream, connect_loop starts
Accept ==
    /\ phase \in {"listening", "returned_ok", "returned_err"}
    /\ conns < MaxConns
    /\ phase' = "open"
    /\ state' = Start
    /\ trace' = <<>>
    /\ conns' = conns + 1
    /\ UNCHANGED accounts
    /\ UNCHANGED notAuthVars

\* RequestState::Start => read_packet, then the request handlers
StartArm ==
    /\ phase = "open"
    /\ state.tag = "Start"
    /\ \E msg \in ClientMsgs, dbOk \in BOOLEAN, sockOk \in BOOLEAN,
          nonce \in 0..(NonceValues - 1) :
          Apply(<<EvRead(read_packet(msg), msg)>>,
                read_arm(state, msg, accounts, dbOk, sockOk, nonce))

\* RequestState::ConnectChallenge => read_packet, then handle_connect_proof
ConnectChallengeArm ==
    /\ phase = "open"
    /\ state.tag = "ConnectChallenge"
    /\ \E msg \in ClientMsgs, dbOk \in BOOLEAN, sockOk \in BOOLEAN :
          Apply(<<EvRead(read_packet(msg), msg)>>,
                read_arm(state, msg, accounts, dbOk, sockOk, 0))

\* RequestState::ReconnectChallenge => read_packet, then handle_reconnect_proof
ReconnectChallengeArm ==
    /\ phase = "open"
    /\ state.tag = "ReconnectChallenge"
    /\ \E msg \in ClientMsgs, sockOk \in BOOLEAN :
          Apply(<<EvRead(read_packet(msg), msg)>>,
                read_arm(state, msg, accounts, TRUE, sockOk, 0))

\* RequestState::Realmlist => read_packet, then handle_realmlist
RealmlistArm ==
    /\ phase = "open"
    /\ state.tag = "Realmlist"
    /\ \E msg \in ClientMsgs, sockOk \in BOOLEAN :
          Apply(<<EvRead(read_packet(msg), msg)>>,
                read_arm(state, msg, accounts, TRUE, sockOk, 0))

\* RequestState::Rejected => write the rejection
RejectedArm ==
    /\ phase = "open"
    /\ state.tag = "Rejected"
    /\ \E sockOk \in BOOLEAN : Apply(<<>>, rejected_arm(state, accounts, sockOk))

\* RequestState::Done => break; connect_loop returns Ok(())
DoneArm ==
    /\ phase = "open"
    /\ state.tag = "Done"
    /\ phase' = "returned_ok"
    /\ UNCHANGED <<accounts, state, trace, conns>>
    /\ UNCHANGED notAuthVars

Next ==
    \/ Accept
    \/ StartArm
    \/ ConnectChallengeArm
    \/ ReconnectChallengeArm
    \/ RealmlistArm
    \/ RejectedArm
    \/ DoneArm

Spec == Init /\ [][Next]_vars

\* ------------------------------------------------------------------------
\* The heartbeat receiver, the updater and start_server, step by step
\* ------------------------------------------------------------------------

\* time passes while the updater waits for its tick, and between the instant
\* zipped with the tick and the write guard; a tick that is due fires before
\* time passes further
Advance ==
    /\ exit = "running"
    /\ clock < MaxTime
    /\ \/ upc = "waiting" /\ clock < nextTick
       \/ upc = "ticked" /\ clock < now + MaxLockWait
    /\ clock' = clock + 1
    /\ UNCHANGED <<heartbeat, lock, buffer, received, dgrams, upc, now, data,
                   nextTick, lastOk, tasks, exit>>
    /\ UNCHANGED notServerVars

\* world_server_heartbeat: a datagram arrives; the insert waits for the guard
Receive ==
    /\ exit = "running" /\ tasks["heartbeat"] = "running"
    /\ dgrams < MaxDatagrams
    /\ lock = "free"
    /\ \E d \in { <<0, 1, 9, 0, 0, 0>>, <<0, 2, 9, 0, 0, 0>>, <<1, 1, 9, 0, 0, 0>>,
                  <<0, 2>> },
          recvOk \in BOOLEAN :
          /\ heartbeat' = heartbeat_turn(heartbeat, buffer, d, recvOk, clock).heartbeat
          /\ buffer' = heartbeat_turn(heartbeat, buffer, d, recvOk, clock).buffer
          /\ received' = IF recvOk THEN d ELSE <<>>
    /\ dgrams' = dgrams + 1
    /\ UNCHANGED <<clock, lock, upc, now, data, nextTick, lastOk, tasks, exit>>
    /\ UNCHANGED notServerVars

\* realmlist_updater: interval.next() yields, zipped with Instant::now()
UpdaterTick ==
    /\ exit = "running" /\ tasks["realmlist"] = "running"
    /\ upc = "waiting"
    /\ clock >= nextTick
    /\ now' = clock
    /\ upc' = "ticked"
    /\ UNCHANGED <<clock, heartbeat, lock, buffer, received, dgrams, data,
                   nextTick, lastOk, tasks, exit>>
    /\ UNCHANGED notServerVars

\* realmlist_updater: self.heartbeat.write().await
UpdaterLock ==
    /\ exit = "running" /\ tasks["realmlist"] = "running"
    /\ upc = "ticked"
    /\ lock = "free"
    /\ lock' = "updater"
    /\ upc' = "locked"
    /\ UNCHANGED <<clock, heartbeat, buffer, received, dgrams, now, data,
                   nextTick, lastOk, tasks, exit>>
    /\ UNCHANGED notServerVars

\* realmlist_updater: the block that builds data, to the drop of the guard
UpdaterBuild ==
    /\ exit = "running" /\ tasks["realmlist"] = "running"
    /\ upc = "locked"
    /\ data' = build_update_list(heartbeat, now).data
    /\ heartbeat' = build_update_list(heartbeat, now).heartbeat
    /\ lock' = lock_after_build
    /\ upc' = "calling"
    /\ UNCHANGED <<clock, buffer, received, dgrams, now, nextTick, lastOk,
                   tasks, exit>>
    /\ UNCHANGED notServerVars

\* realmlist_updater: now.duration_since(*v) for an entry inserted after now
\* was sampled saturates to zero or panics, as the toolchain's std has it; the
\* panic unwinds the task, drops the guard and ends start_server
UpdaterPanic ==
    /\ exit = "running" /\ tasks["realmlist"] = "running"
    /\ upc = "locked"
    /\ \E k \in DOMAIN heartbeat : now < heartbeat[k]
    /\ tasks' = try_join([tasks EXCEPT !["realmlist"] = "panic"]).tasks
    /\ exit' = try_join([tasks EXCEPT !["realmlist"] = "panic"]).exit
    /\ lock' = "free"
    /\ upc' = "panicked"
    /\ UNCHANGED <<clock, heartbeat, buffer, received, dgrams, now, data,
                   nextTick, lastOk>>
    /\ UNCHANGED notServerVars

\* realmlist_updater: self.realms.update_status(data).await returns
UpdaterCall ==
    /\ exit = "running" /\ tasks["realmlist"] = "running"
    /\ upc = "calling"
    /\ \E ok \in BOOLEAN :
          /\ lastOk' = ok
          /\ upc' = after_update_status(ok)
    /\ nextTick' = nextTick + TICK_SECS * SubPerSec
    /\ UNCHANGED <<clock, heartbeat, lock, buffer, received, dgrams, now, data,
                   tasks, exit>>
    /\ UNCHANGED notServerVars

\* a task of start_server ends: bind fails as the acceptor or the receiver
\* starts, or the acceptor panics while it serves a connection
TaskEnds ==
    /\ exit = "running"
    /\ \E n \in {"auth", "heartbeat"}, how \in {"err", "panic"} :
          /\ tasks[n] = "running"
          /\ how = "err" => (clock = 0 /\ dgrams = 0)
          /\ how = "panic" => n = "auth"
          /\ tasks' = try_join([tasks EXCEPT ![n] = how]).tasks
          /\ exit' = try_join([tasks EXCEPT ![n] = how]).exit
    /\ UNCHANGED <<clock, heartbeat, lock, buffer, received, dgrams, upc, now,
                   data, nextTick, lastOk>>
    /\ UNCHANGED notServerVars

ServerNext ==
    \/ Advance
    \/ Receive
    \/ UpdaterTick
    \/ UpdaterLock
    \/ UpdaterBuild
    \/ UpdaterPanic
    \/ UpdaterCall
    \/ TaskEnds

ServerSpec == Init /\ [][ServerNext]_vars

\* ------------------------------------------------------------------------
\* Calls of the library, one at a time
\* ------------------------------------------------------------------------

\* WowSRPServer::register(username, password); the calls of the SRP library
\* and those of the account store do not read each other's state and are
\* followed apart
CallRegister ==
    /\ call.fn # "create_account"
    /\ \E u \in {"ARLYON", "BOB", "CAROL", "DAVE"},
          p \in {"TEST", "HUNTER", "SECRET"}, salt \in 0..(SrpRadix - 1) :
          call' = [fn |-> "register", username |-> u, password |-> p,
                   out |-> register(u, p, salt)]
    /\ UNCHANGED inserted
    /\ UNCHANGED notLibVars

\* WowSRPServer::new(username, salt, verifier) with what register returned
CallNew ==
    /\ call.fn = "register"
    /\ ~call.out.panic
    /\ call' = [fn |-> "new", username |-> call.username, password |-> call.password,
                server |-> WowSRPServer_new(call.username, call.out.salt,
                                            call.out.verifier)]
    /\ UNCHANGED inserted
    /\ UNCHANGED notLibVars

\* server.verify_challenge_response(a_pub, client_m)
CallVerify ==
    /\ call.fn = "new"
    /\ ~call.server.panic
    /\ \E a_pub \in {wire_bytes(a) : a \in 0..(Pow(SrpRadix, SrpWidth) - 1)},
          client_m \in 0..(HashMod - 1) :
          call' = [fn |-> "verify", username |-> call.username,
                   password |-> call.password, server |-> call.server,
                   a_pub |-> a_pub, client_m |-> client_m,
                   out |-> verify_challenge_response(call.server, a_pub, client_m)]
    /\ UNCHANGED inserted
    /\ UNCHANGED notLibVars

\* a realm of the Realm Store whose name has n bytes
RealmNamed(n) ==
    [realm_type |-> 1, flags |-> 0, name |-> [i \in 1..n |-> 66],
     socket |-> <<49, 58, 56>>, timezone |-> 8, id |-> 2]

\* the lengths of realm names the calls are made with
NameLengths == {1, 9, 65510, 65520}

\* handle_realmlist's RealmListResponse::from_realms(&realms) and the packet
\* built from it; checked is whether the build checks arithmetic overflow
CallFromRealms ==
    /\ call.fn \in {"none", "from_realms"}
    /\ \E names \in {<<>>} \cup {<<n>> : n \in NameLengths}
                            \cup {<<n, m>> : n \in NameLengths, m \in {1, 9}},
          checked \in BOOLEAN :
          call' = [fn |-> "from_realms", names |-> names, checked |-> checked,
                   count |-> Len(names),
                   panic |-> checked /\ from_realms_overflows(
                                 [i \in 1..Len(names) |-> RealmNamed(names[i])]),
                   out |-> RealmListResponse_from_realms(
                                 [i \in 1..Len(names) |-> RealmNamed(names[i])]),
                   frame_len |-> Len(RealmListResponse_frame(
                                 [i \in 1..Len(names) |-> RealmNamed(names[i])]))]
    /\ UNCHANGED inserted
    /\ UNCHANGED notLibVars

\* accounts.create_account(username, password, email)
CallCreateAccount ==
    /\ call.fn \in {"none", "create_account"}
    /\ Len(inserted) < MaxAccounts
    /\ \E username \in { <<97, 98>>, <<65, 98>>, <<97, 49>>,
                         [i \in 1..MAX_CREDENTIAL_LEN |-> 97],
                         [i \in 1..(MAX_CREDENTIAL_LEN + 1) |-> 97] },
          password \in { <<112, 119>>, <<80, 119>>,
                         [i \in 1..(MAX_CREDENTIAL_LEN + 1) |-> 112] },
          salt \in {1, 2},
          insertOk \in BOOLEAN, charsOk \in BOOLEAN :
          /\ call' = [fn |-> "create_account", username |-> username,
                      password |-> password, salt |-> salt,
                      res |-> create_account(inserted, username, password, salt,
                                             insertOk, charsOk).res]
          /\ inserted' = create_account(inserted, username, password, salt,
                                        insertOk, charsOk).table
    /\ UNCHANGED notLibVars

LibNext ==
    \/ CallCreateAccount
    \/ CallFromRealms
    \/ CallRegister
    \/ CallNew
    \/ CallVerify

LibSpec == Init /\ [][LibNext]_vars

\* ------------------------------------------------------------------------
\* The world server: worldserver.rs, protocol/mod.rs, world/world.rs
\* ------------------------------------------------------------------------

\* WorldServer.id, the realm this server serves
this_realm == REALMS[1].id

\* WorldServer.realm_seed, drawn once in with_world
realm_seed == <<2, 0, 1, 3>>

\* Client.account = None
NoAccount == ""

\* a ClientPacket; the fields past op are those of an AuthSession
ClientPacket(op, realm, username, local_challenge, client_proof) ==
    [op |-> op, realm_id |-> realm, username |-> username,
     local_challenge |-> local_challenge, client_proof |-> client_proof]

Ping == ClientPacket("Ping", 0, "", <<>>, 0)

KeepAlive == ClientPacket("KeepAlive", 0, "", <<>>, 0)

NoPacket == ClientPacket("none", 0, "", <<>>, 0)

\* one read of the socket: the bytes returned, whether every header and body
\* lies within them, whether op codes and bodies decode, and the packets
Frame(len, complete, decodes, packets) ==
    [len |-> len, complete |-> complete, decodes |-> decodes, packets |-> packets]

\* read_packets: Err on a closed connection and on what does not decode, a
\* panic on a slice past the bytes read, else the packets of the frame
read_packets(frame) ==
    IF frame.len = 0 THEN "err"
    ELSE IF ~frame.complete THEN "panic"
    ELSE IF ~frame.decodes THEN "err"
    ELSE "ok"

\* a step of the connection: a read of the socket or a write to it
WorldEvent(ev, what, packet, ok) ==
    [ev |-> ev, what |-> what, packet |-> packet, ok |-> ok]

\* handle_auth_session's server_proof
session_proof(username, local_challenge, session_key) ==
    Sha1(StrBytes(username) \o <<0, 0, 0, 0>> \o local_challenge \o realm_seed
         \o session_key)

\* handle_auth_session as it would be without the comparison of the proofs
handle_auth_session_any_proof(account, auth_session, acc, dbOk, createOk) ==
    IF auth_session.realm_id # this_realm
    THEN [ok |-> FALSE, code |-> "RealmListRealmNotFound", account |-> account]
    ELSE IF account # NoAccount
    THEN [ok |-> FALSE, code |-> "AuthAlreadyOnline", account |-> account]
    ELSE IF ~(dbOk /\ auth_session.username \in DOMAIN acc)
    THEN [ok |-> FALSE, code |-> "AuthUnknownAccount", account |-> account]
    ELSE IF acc[auth_session.username].session_key = NoKey
    THEN [ok |-> FALSE, code |-> "AuthSessionExpired", account |-> account]
    ELSE IF ~createOk
    THEN [ok |-> FALSE, code |-> "AuthSystemError",
          account |-> auth_session.username]
    ELSE [ok |-> TRUE, code |-> "AuthOk", account |-> auth_session.username]

\* handle_auth_session: account is the client's, dbOk whether the account
\* query ran, createOk whether create_session's writes went out; the id of
\* the account row is stood for by its username
handle_auth_session(account, auth_session, acc, dbOk, createOk) ==
    IF auth_session.realm_id # this_realm
    THEN [ok |-> FALSE, code |-> "RealmListRealmNotFound", account |-> account]
    ELSE IF account # NoAccount
    THEN [ok |-> FALSE, code |-> "AuthAlreadyOnline", account |-> account]
    ELSE IF ~(dbOk /\ auth_session.username \in DOMAIN acc)
    THEN [ok |-> FALSE, code |-> "AuthUnknownAccount", account |-> account]
    ELSE IF acc[auth_session.username].session_key = NoKey
    THEN [ok |-> FALSE, code |-> "AuthSessionExpired", account |-> account]
    ELSE IF auth_session.client_proof
              # session_proof(auth_session.username, auth_session.local_challenge,
                              acc[auth_session.username].session_key)
    THEN [ok |-> FALSE, code |-> "AuthReject", account |-> account]
    ELSE IF ~createOk
    THEN [ok |-> FALSE, code |-> "AuthSystemError",
          account |-> auth_session.username]
    ELSE [ok |-> TRUE, code |-> "AuthOk", account |-> auth_session.username]

\* session.receive_packet for each packet: (client_id, packet) into the channel
receive_packets(id, packets) ==
    [i \in 1..Len(packets) |-> [client |-> id, packet |-> packets[i]]]

\* clients.remove(&id)
remove_client(cl, id) == [c \in DOMAIN cl \ {id} |-> cl[c]]

\* the end of connect_loop with Err and accept_clients' removal of the client
ConnectionErr(id, cl, sess, ch, events) ==
    [phase |-> "closed", clients |-> remove_client(cl, id), sessions |-> sess,
     channel |-> ch, events |-> events]

\* a panic inside connect_loop: the clients task unwinds
ConnectionPanic(cl, sess, ch, events) ==
    [phase |-> "panicked", clients |-> cl, sessions |-> sess, channel |-> ch,
     events |-> events]

\* connect_loop up to its second read as it would be if the packets after a
\* first packet that is no AuthSession were passed on under the client's id
connect_loop_start_lenient(id, frame, cl, sess, ch, acc, dbOk, createOk, sockOk) ==
    IF read_packets(frame) = "panic"
    THEN ConnectionPanic(cl, sess, ch, <<WorldEvent("read", "panic", NoPacket, FALSE)>>)
    ELSE IF read_packets(frame) = "err"
    THEN ConnectionErr(id, cl, sess, ch, <<WorldEvent("read", "err", NoPacket, FALSE)>>)
    ELSE ConnectionErr(id, cl, sess, ch \o receive_packets(id, Tail(frame.packets)),
                       <<WorldEvent("read", "ok", Head(frame.packets), TRUE)>>)

\* connect_loop up to its second read: read_packets, the match over the first
\* packet, handle_auth_session, and the loop over the packets that are left
connect_loop_start(id, frame, cl, sess, ch, acc, dbOk, createOk, sockOk) ==
    IF read_packets(frame) = "panic"
    THEN ConnectionPanic(cl, sess, ch, <<WorldEvent("read", "panic", NoPacket, FALSE)>>)
    ELSE IF read_packets(frame) = "err"
    THEN ConnectionErr(id, cl, sess, ch, <<WorldEvent("read", "err", NoPacket, FALSE)>>)
    ELSE IF Head(frame.packets).op # "AuthSession"
    THEN ConnectionErr(id, cl, sess, ch,
                       <<WorldEvent("read", "ok", Head(frame.packets), TRUE)>>)
    ELSE IF handle_auth_session(cl[id], Head(frame.packets), acc, dbOk, createOk).ok
    THEN [phase |-> "session",
          clients |-> [cl EXCEPT ![id] = Head(frame.packets).username],
          sessions |-> sess \cup {id},
          channel |-> ch \o receive_packets(id, Tail(frame.packets)),
          events |-> <<WorldEvent("read", "ok", Head(frame.packets), TRUE),
                       WorldEvent("write", "AuthOk", NoPacket, TRUE)>>]
    ELSE ConnectionErr(id, cl, sess, ch,
           <<WorldEvent("read", "ok", Head(frame.packets), TRUE),
             WorldEvent("write",
                        handle_auth_session(cl[id], Head(frame.packets), acc, dbOk,
                                            createOk).code,
                        NoPacket, sockOk)>>)

\* connect_loop, a later read_packets and the loop over its packets
connect_loop_turn(id, frame, cl, sess, ch) ==
    IF read_packets(frame) = "panic"
    THEN ConnectionPanic(cl, sess, ch, <<WorldEvent("read", "panic", NoPacket, FALSE)>>)
    ELSE IF read_packets(frame) = "err"
    THEN ConnectionErr(id, cl, sess, ch, <<WorldEvent("read", "err", NoPacket, FALSE)>>)
    ELSE [phase |-> "session", clients |-> cl, sessions |-> sess,
          channel |-> ch \o receive_packets(id, frame.packets),
          events |-> <<WorldEvent("read", "ok", Head(frame.packets), TRUE)>>]

\* World::handle_packets, one turn of its loop: a packet of a client without
\* a session is skipped, an AuthSession is ignored
handle_packets(entry, sess) ==
    IF entry.client \notin sess THEN "skipped"
    ELSE IF entry.packet.op = "AuthSession" THEN "ignored"
    ELSE "handled"

\* the AuthSession packets a client sends
WorldUsers == {"ARLYON", "NOBODY"}
AuthSessions ==
    { ClientPacket("AuthSession", r, u, c, m) :
        r \in {this_realm, this_realm + 1}, u \in WorldUsers,
        c \in {<<0, 0, 0, 1>>, <<7, 0, 0, 0>>},
        m \in 0..(HashMod - 1) }

\* the frames a client sends: one AuthSession, one followed by a Ping, a Ping
\* alone, a Ping before an AuthSession, a frame cut short, one that does not
\* decode, and the end of the stream
WorldFrames ==
    { Frame(1, TRUE, TRUE, <<a>>) : a \in AuthSessions }
    \cup { Frame(1, TRUE, TRUE, <<a, Ping>>) : a \in AuthSessions }
    \cup { Frame(1, TRUE, TRUE, <<Ping>>), Frame(1, FALSE, TRUE, <<Ping>>),
           Frame(1, TRUE, FALSE, <<>>), Frame(0, TRUE, TRUE, <<>>) }
    \cup { Frame(1, TRUE, TRUE, <<Ping, a>>) : a \in AuthSessions }

\* the effect of one turn of the world server's connect_loop
WorldApply(r) ==
    /\ wphase' = r.phase
    /\ clients' = r.clients
    /\ sessions' = r.sessions
    /\ channel' = r.channel
    /\ wtrace' = wtrace \o r.events
    /\ frames' = frames + 1
    /\ UNCHANGED <<wconns, handled, accounts>>
    /\ UNCHANGED notWorldVars

\* complete_login on the auth server stores the session key of a login
LoginStored ==
    /\ \E u \in WorldUsers \cap DOMAIN accounts, key \in ({<<1, 2>>, <<3, 0>>}) :
          /\ accounts[u].session_key # key
          /\ accounts' = [accounts EXCEPT ![u].session_key = key]
    /\ UNCHANGED worldVars
    /\ UNCHANGED notWorldVars

\* accept_clients: a stream arrives, the client is inserted with no account
\* and SmsgAuthChallenge is written; a failed write ends accept_clients
WorldAccept ==
    /\ wphase \in {"listening", "closed"}
    /\ wconns < MaxWorldConns
    /\ \E sockOk \in BOOLEAN :
          /\ wphase' = IF sockOk THEN "accepted" ELSE "returned_err"
          /\ wtrace' = <<WorldEvent("write", "SmsgAuthChallenge", NoPacket, sockOk)>>
    /\ clients' = [c \in DOMAIN clients \cup {wconns + 1} |->
                     IF c = wconns + 1 THEN NoAccount ELSE clients[c]]
    /\ wconns' = wconns + 1
    /\ frames' = 0
    /\ UNCHANGED <<sessions, channel, handled, accounts>>
    /\ UNCHANGED notWorldVars

\* connect_loop from its start to its second read
WorldFirstFrame ==
    /\ wphase = "accepted"
    /\ \E frame \in WorldFrames, dbOk \in BOOLEAN, createOk \in BOOLEAN,
          sockOk \in BOOLEAN :
          WorldApply(connect_loop_start(wconns, frame, clients, sessions, channel,
                                        accounts, dbOk, createOk, sockOk))

\* connect_loop, a later turn of its loop
WorldNextFrame ==
    /\ wphase = "session"
    /\ frames < MaxFrames
    /\ \E frame \in
            { Frame(1, TRUE, TRUE, <<Ping>>), Frame(1, TRUE, TRUE, <<Ping, KeepAlive>>),
              Frame(1, FALSE, TRUE, <<Ping>>), Frame(1, TRUE, FALSE, <<>>),
              Frame(0, TRUE, TRUE, <<>>) }
            \cup { Frame(1, TRUE, TRUE, <<a>>) :
                      a \in {x \in AuthSessions :
                                x.client_proof = 0 /\ x.realm_id = this_realm} } :
          WorldApply(connect_loop_turn(wconns, frame, clients, sessions, channel))

\* World::handle_packets receives one packet from the channel
WorldHandlePacket ==
    /\ channel # <<>>
    /\ wphase # "panicked"
    /\ channel' = Tail(channel)
    /\ handled' = handle_packets(Head(channel), sessions)
    /\ UNCHANGED <<wphase, clients, sessions, wtrace, wconns, frames, accounts>>
    /\ UNCHANGED notWorldVars

WorldNext ==
    \/ LoginStored
    \/ WorldAccept
    \/ WorldFirstFrame
    \/ WorldNextFrame
    \/ WorldHandlePacket

WorldSpec == Init /\ [][WorldNext]_vars

\* ------------------------------------------------------------------------
\* The realm list: mysql-auth/realms.rs (and mysql/realms.rs, the same code)
\* ------------------------------------------------------------------------

\* the update_interval the auth server constructs its MySQLRealmList with
UPDATE_INTERVAL_SECS == 10

\* a task calls realms(): let now = SystemTime::now()
RealmsCall(c) ==
    /\ rpc[c] = "idle"
    /\ rnow' = [rnow EXCEPT ![c] = wall]
    /\ rpc' = [rpc EXCEPT ![c] = "check"]
    /\ UNCHANGED <<fetched, held, realms_cache, next_update, wall>>
    /\ UNCHANGED notRealmVars

\* if now > *self.next_update.read().await; the read guard is a temporary of
\* the condition and is dropped before the block is entered
ReadNextUpdate(c) ==
    /\ rpc[c] = "check"
    /\ held["next_update"] = 0
    /\ rpc' = [rpc EXCEPT ![c] = IF rnow[c] > next_update THEN "query" ELSE "read"]
    /\ UNCHANGED <<rnow, fetched, held, realms_cache, next_update, wall>>
    /\ UNCHANGED notRealmVars

\* query_as!(...).fetch_all(&self.pool).await: Ok with the rows, or Err, and
\* then the block is skipped
Query(c) ==
    /\ rpc[c] = "query"
    /\ \/ \E rows \in {<<1>>, <<1, 2>>} :
             /\ fetched' = [fetched EXCEPT ![c] = rows]
             /\ rpc' = [rpc EXCEPT ![c] = "join_left"]
       \/ /\ rpc' = [rpc EXCEPT ![c] = "read"]
          /\ UNCHANGED fetched
    /\ UNCHANGED <<rnow, held, realms_cache, next_update, wall>>
    /\ UNCHANGED notRealmVars

\* self.realms.write().join(self.next_update.write()): a poll of the Join
\* polls the left future, self.realms.write(), unless it is done; the guard
\* it returns is kept inside the Join
PollRealmsWrite(c) ==
    /\ rpc[c] = "join_left"
    /\ held' = IF held["realms"] = 0 THEN [held EXCEPT !["realms"] = c] ELSE held
    /\ rpc' = [rpc EXCEPT ![c] = "join_right"]
    /\ UNCHANGED <<rnow, fetched, realms_cache, next_update, wall>>
    /\ UNCHANGED notRealmVars

\* the same poll goes on to the right future, self.next_update.write(); the
\* Join is Ready when both guards are there and Pending otherwise
PollNextUpdateWrite(c) ==
    /\ rpc[c] = "join_right"
    /\ held' = IF held["next_update"] = 0 THEN [held EXCEPT !["next_update"] = c]
               ELSE held
    /\ rpc' = [rpc EXCEPT ![c] =
                 IF held'["realms"] = c /\ held'["next_update"] = c
                 THEN "store" ELSE "join_pending"]
    /\ UNCHANGED <<rnow, fetched, realms_cache, next_update, wall>>
    /\ UNCHANGED notRealmVars

\* a Pending Join is polled again when a lock it waits for is released
Wake(c) ==
    /\ rpc[c] = "join_pending"
    /\ \E l \in DOMAIN held : held[l] = 0
    /\ rpc' = [rpc EXCEPT ![c] = "join_left"]
    /\ UNCHANGED <<rnow, fetched, held, realms_cache, next_update, wall>>
    /\ UNCHANGED notRealmVars

\* *self_realms = realms; *self_next_update = now + self.update_interval; both
\* guards are dropped at the end of the block
Store(c) ==
    /\ rpc[c] = "store"
    /\ realms_cache' = fetched[c]
    /\ next_update' = rnow[c] + UPDATE_INTERVAL_SECS
    /\ held' = [l \in DOMAIN held |-> 0]
    /\ rpc' = [rpc EXCEPT ![c] = "read"]
    /\ UNCHANGED <<rnow, fetched, wall>>
    /\ UNCHANGED notRealmVars

\* self.realms.read().await.clone(): the call returns the cached list
ReadRealms(c) ==
    /\ rpc[c] = "read"
    /\ held["realms"] = 0
    /\ rpc' = [rpc EXCEPT ![c] = "idle"]
    /\ UNCHANGED <<rnow, fetched, held, realms_cache, next_update, wall>>
    /\ UNCHANGED notRealmVars

\* the steps of the calls of realms() that are under way
RealmsProgress ==
    \E c \in (1..MaxCallers) :
        \/ ReadNextUpdate(c)
        \/ Query(c)
        \/ PollRealmsWrite(c)
        \/ PollNextUpdateWrite(c)
        \/ Wake(c)
        \/ Store(c)
        \/ ReadRealms(c)

\* the wall clock moves on by half an update interval
WallTick ==
    /\ wall + UPDATE_INTERVAL_SECS \div 2 <= MaxWall
    /\ wall' = wall + UPDATE_INTERVAL_SECS \div 2
    /\ UNCHANGED <<rpc, rnow, fetched, held, realms_cache, next_update>>
    /\ UNCHANGED notRealmVars

RealmsNext ==
    \/ \E c \in (1..MaxCallers) : RealmsCall(c)
    \/ RealmsProgress
    \/ WallTick

RealmsSpec == Init /\ [][RealmsNext]_vars

\* C37: concurrent calls of MySQLRealmList::realms() never deadlock: while a
\* call is under way, some call under way can take its next step, also when
\* two callers refresh the cache at once and each asks for the write locks on
\* realms and next_update
C37_RealmsNeverDeadlocks ==
    (\E c \in (1..MaxCallers) : rpc[c] # "idle") => ENABLED RealmsProgress

\* ------------------------------------------------------------------------
\* Sending on a Session: world/session.rs, world/world.rs
\* ------------------------------------------------------------------------

\* Session::finalize: AuthResponse, AddonInfo, ClientCacheVersion, TutorialData
FinalizePackets == <<"AuthResponse", "AddonInfo", "ClientCacheVersion", "TutorialData">>

\* handle_packets as it would be if it sent on the newest Session instead of
\* the one stored under the packet's ClientId
handler_session_newest(entry) ==
    IF wconns \in DOMAIN encrypted THEN wconns ELSE entry.client

\* handle_packets: sessions.get(&id), the Session the handler sends on
handler_session(entry) == entry.client

\* connect_loop from its start up to Session::new inside create_session; a
\* connection that does not get that far ends as in connect_loop_start
SessionAuth ==
    /\ wphase = "accepted"
    /\ \E frame \in WorldFrames, dbOk \in BOOLEAN, sockOk \in BOOLEAN :
          IF connect_loop_start(wconns, frame, clients, sessions, channel, accounts,
                                dbOk, TRUE, sockOk).phase = "session"
          THEN /\ wphase' = "finalize"
               /\ clients' = [clients EXCEPT ![wconns] = Head(frame.packets).username]
               /\ wtrace' = Append(wtrace,
                                   WorldEvent("read", "ok", Head(frame.packets), TRUE))
               /\ frames' = frames + 1
               /\ encrypted' = [c \in DOMAIN encrypted \cup {wconns} |->
                                  IF c = wconns THEN 0 ELSE encrypted[c]]
               /\ written' = [c \in DOMAIN written \cup {wconns} |->
                                IF c = wconns THEN <<>> ELSE written[c]]
               /\ finalizing' = [stage |-> "idle", sent |-> 0, pos |-> 0,
                                 rest |-> Tail(frame.packets)]
               /\ UNCHANGED <<sessions, channel, wconns, handled, accounts, ponging>>
               /\ UNCHANGED notSessionVars
          ELSE WorldApply(connect_loop_start(wconns, frame, clients, sessions,
                                             channel, accounts, dbOk, TRUE, sockOk))

\* write_packet of the next finalize packet, its first half: encrypt_headers
\* locks Session.encryption, encrypts the header and unlocks
FinalizeEncrypt ==
    /\ wphase = "finalize"
    /\ finalizing.stage = "idle"
    /\ finalizing.sent < Len(FinalizePackets)
    /\ encrypted' = [encrypted EXCEPT ![wconns] = @ + 1]
    /\ finalizing' = [finalizing EXCEPT !.stage = "encrypted",
                                        !.pos = encrypted[wconns] + 1]
    /\ UNCHANGED <<written, ponging, worldVars, accounts>>
    /\ UNCHANGED notSessionVars

\* write_packet, its second half: Session.stream is locked and the packet is
\* written; an Err leaves Session::new, handle_auth_session answers
\* AuthSystemError on the bare writer and connect_loop bails
FinalizeWrite ==
    /\ wphase = "finalize"
    /\ finalizing.stage = "encrypted"
    /\ \/ /\ written' = [written EXCEPT ![wconns] = Append(@, finalizing.pos)]
          /\ finalizing' = [finalizing EXCEPT !.stage = "idle", !.sent = @ + 1]
          /\ UNCHANGED <<wphase, clients, wtrace>>
       \/ /\ \E sockOk \in BOOLEAN :
                wtrace' = Append(wtrace, WorldEvent("write", "AuthSystemError",
                                                    NoPacket, sockOk))
          /\ wphase' = "closed"
          /\ clients' = remove_client(clients, wconns)
          /\ finalizing' = NotFinalizing
          /\ UNCHANGED written
    /\ UNCHANGED <<encrypted, ponging, sessions, channel, wconns, frames, handled,
                   accounts>>
    /\ UNCHANGED notSessionVars

\* create_session inserts the Session once finalize has returned Ok, and
\* connect_loop passes on the packets that came with the AuthSession
FinalizeDone ==
    /\ wphase = "finalize"
    /\ finalizing.stage = "idle"
    /\ finalizing.sent = Len(FinalizePackets)
    /\ sessions' = sessions \cup {wconns}
    /\ channel' = channel \o receive_packets(wconns, finalizing.rest)
    /\ wtrace' = Append(wtrace, WorldEvent("write", "AuthOk", NoPacket, TRUE))
    /\ wphase' = "session"
    /\ finalizing' = NotFinalizing
    /\ UNCHANGED <<encrypted, written, ponging, clients, wconns, frames, handled,
                   accounts>>
    /\ UNCHANGED notSessionVars

\* handle_packets receives a packet and looks its Session up; a Ping is
\* answered with send_packet(Pong)
HandlerRecv ==
    /\ ponging.stage = "idle"
    /\ channel # <<>>
    /\ wphase # "panicked"
    /\ channel' = Tail(channel)
    /\ handled' = handle_packets(Head(channel), sessions)
    /\ ponging' = IF handle_packets(Head(channel), sessions) = "handled"
                     /\ Head(channel).packet.op = "Ping"
                  THEN [client |-> handler_session(Head(channel)),
                        stage |-> "start", pos |-> 0]
                  ELSE NotPonging
    /\ UNCHANGED <<encrypted, written, finalizing, wphase, clients, sessions, wtrace,
                   wconns, frames, accounts>>
    /\ UNCHANGED notSessionVars

\* write_packet of the Pong, its first half
HandlerEncrypt ==
    /\ ponging.stage = "start"
    /\ encrypted' = [encrypted EXCEPT ![ponging.client] = @ + 1]
    /\ ponging' = [ponging EXCEPT !.stage = "encrypted",
                                  !.pos = encrypted[ponging.client] + 1]
    /\ UNCHANGED <<written, finalizing, worldVars, accounts>>
    /\ UNCHANGED notSessionVars

\* write_packet of the Pong, its second half; handle_packets logs an Err and
\* goes on
HandlerWrite ==
    /\ ponging.stage = "encrypted"
    /\ \/ written' = [written EXCEPT ![ponging.client] = Append(@, ponging.pos)]
       \/ UNCHANGED written
    /\ ponging' = NotPonging
    /\ UNCHANGED <<encrypted, finalizing, worldVars, accounts>>
    /\ UNCHANGED notSessionVars

SessionNext ==
    \/ LoginStored
    \/ WorldAccept
    \/ SessionAuth
    \/ FinalizeEncrypt
    \/ FinalizeWrite
    \/ FinalizeDone
    \/ WorldNextFrame
    \/ HandlerRecv
    \/ HandlerEncrypt
    \/ HandlerWrite

SessionSpec == Init /\ [][SessionNext]_vars

\* C39: on each Session the packets reach the socket in the order in which
\* their headers were encrypted, whatever the interleaving of the accept task
\* (finalize) and the World packet handler
C39_WrittenInCipherOrder ==
    \A c \in DOMAIN written :
        \A i, j \in 1..Len(written[c]) : i < j => written[c][i] < written[c][j]

\* both tasks are between the two halves of a write_packet: the handler on a
\* Session that has taken the four packets of finalize, the accept task on a
\* later one
C39_Witness ==
    /\ finalizing.stage = "encrypted"
    /\ ponging.stage = "encrypted"
    /\ ponging.client # wconns
    /\ Len(written[ponging.client]) = Len(FinalizePackets)

\* ------------------------------------------------------------------------
\* Reading the trace
\* ------------------------------------------------------------------------

TraceIdx == 1..Len(trace)

IsRead(e, what) == e.ev = "read" /\ e.what = what

IsWrite(e, what) == e.ev = "write" /\ e.what = what

\* the status byte of a rejection frame: its last byte
StatusOf(frame) == frame[Len(frame)]

\* the token initiate_login builds from the stored row of u
StoredToken(u) == ConnectToken_new(u, accounts[u].salt, accounts[u].verifier)

\* the connection's first message is a request of this kind, read in Start
FirstIs(what) == Len(trace) >= 1 /\ IsRead(trace[1], what)

\* the account the connection's request names
Named == trace[1].msg.ident.name

\* trace[j] is a ConnectProof read in state ConnectChallenge: the turn before
\* it ended with the ConnectChallenge frame on the socket
ProofReadAt(j) ==
    /\ j \in TraceIdx /\ j > 1
    /\ IsRead(trace[j], "ConnectProof")
    /\ IsWrite(trace[j - 1], "ConnectChallenge") /\ trace[j - 1].ok
    /\ FirstIs("ConnectRequest")

\* what verifying the proof read at j against the connection's token gives
VerifyAt(j) ==
    verify_challenge_response(StoredToken(Named).server,
                              trace[j].msg.a_pub, trace[j].msg.proof)

\* a ConnectProof was verified against the token issued for this connection
ConnectVerified ==
    \E j \in TraceIdx :
        /\ ProofReadAt(j)
        /\ Named \in DOMAIN accounts
        /\ trace[j - 1].bytes = ConnectChallenge_frame(StoredToken(Named))
        /\ VerifyAt(j).res = "some"

\* a ReconnectProof equal to SHA1(username, proof_data, server nonce, K) was
\* read after the ReconnectChallenge that carried the nonce
ReconnectVerified ==
    \E j \in TraceIdx :
        /\ j > 1
        /\ IsRead(trace[j], "ReconnectProof")
        /\ IsWrite(trace[j - 1], "ReconnectChallenge") /\ trace[j - 1].ok
        /\ FirstIs("ReconnectRequest")
        /\ Named \in DOMAIN accounts
        /\ trace[j].msg.proof =
              Sha1(StrBytes(Named) \o <<trace[j].msg.data>>
                   \o <<trace[j - 1].bytes[3]>> \o accounts[Named].session_key)

RealmListWritten == \E i \in TraceIdx : IsWrite(trace[i], "RealmListResponse")

\* ------------------------------------------------------------------------
\* Claims
\* ------------------------------------------------------------------------

\* C1: a connection is in state Realmlist, or has a RealmListResponse written,
\* only if earlier on that connection a ConnectProof was verified against the
\* token issued for its ConnectRequest, or a ReconnectProof matched the token
\* issued for its ReconnectRequest.
C1_RealmlistOnlyAfterProof ==
    (state.tag = "Realmlist" \/ RealmListWritten)
        => (ConnectVerified \/ ReconnectVerified)

\* C1 witness: a connection that reconnected with a matching proof, was served
\* the realm list and returned.
C1_Witness ==
    /\ phase = "returned_ok"
    /\ ReconnectVerified
    /\ \E i \in TraceIdx : IsWrite(trace[i], "RealmListResponse") /\ trace[i].ok

\* C2: in Start, a ConnectRequest with build 12340 that names an existing,
\* non-banned account (the store answering) has the ConnectChallenge frame
\* written next, moves the connection to ConnectChallenge with the token of
\* that account, and no ConnectProof is read before that frame.
C2_ConnectRequestIssuesChallenge ==
    ( /\ FirstIs("ConnectRequest")
      /\ trace[1].msg.build = BUILD
      /\ Named \in DOMAIN accounts
      /\ accounts[Named].ban = "none"
      /\ Len(trace) >= 2 /\ trace[2].ev = "query" /\ trace[2].ok )
    => /\ Len(trace) >= 3
       /\ IsWrite(trace[3], "ConnectChallenge")
       /\ trace[3].bytes = ConnectChallenge_frame(StoredToken(Named))
       /\ SubSeq(trace[3].bytes, 1, 3) = <<CMD_ConnectRequest, 0, RC_Success>>
       /\ (trace[3].ok /\ Len(trace) = 3) =>
             /\ phase = "open"
             /\ state = ConnectChallenge(StoredToken(Named))
       /\ \A j \in TraceIdx : IsRead(trace[j], "ConnectProof") => j > 3

\* C3: on a ConnectProof that verifies, the session key goes to the Account
\* Store before anything is written to the socket, and the ConnectProofResponse
\* follows only a store write that succeeded; if the store write fails, no
\* ConnectProofResponse is written, the rejection sent carries status Failed,
\* and the connection ends without reaching Realmlist.
C3_StoreBeforeResponse ==
    \A j \in TraceIdx :
        (ProofReadAt(j) /\ VerifyAt(j).res = "some") =>
            /\ Len(trace) > j
            /\ trace[j + 1].ev = "update"
            /\ trace[j + 1].bytes = VerifyAt(j).key
            /\ trace[j + 1].ok =>
                  /\ trace[j + 1].user \in DOMAIN accounts
                        => accounts[trace[j + 1].user].session_key = VerifyAt(j).key
                  /\ Len(trace) > j + 1
                  /\ IsWrite(trace[j + 2], "ConnectProofResponse")
            /\ ~trace[j + 1].ok =>
                  /\ \A i \in TraceIdx : ~IsWrite(trace[i], "ConnectProofResponse")
                  /\ state.tag # "Realmlist"
                  /\ Len(trace) = j + 1 =>
                        /\ phase = "open"
                        /\ state = Rejected(CMD_AuthLogonProof, RC_Failed)
                  /\ Len(trace) > j + 1 =>
                        /\ Len(trace) = j + 2
                        /\ IsWrite(trace[j + 2], "Rejected")
                        /\ StatusOf(trace[j + 2].bytes) = RC_Failed
                        /\ state.tag \in {"Rejected", "Done"}
                        /\ trace[j + 2].ok => state.tag = "Done"

\* C3 witness: a verified proof whose store write failed, answered with the
\* rejection, the connection over.
C3_Witness ==
    /\ phase = "returned_ok"
    /\ \E j \in TraceIdx :
          /\ ProofReadAt(j) /\ VerifyAt(j).res = "some"
          /\ Len(trace) = j + 2
          /\ trace[j + 1].ev = "update" /\ ~trace[j + 1].ok
          /\ IsWrite(trace[j + 2], "Rejected") /\ trace[j + 2].ok

\* the step in which a ConnectProof is accepted and the connection moves on
LoginStep ==
    /\ phase = "open" /\ state.tag = "ConnectChallenge"
    /\ phase' = "open" /\ state'.tag = "Realmlist"

\* C4: after a successful login on a connection whose ConnectRequest named
\* account U, the Account Store holds the derived session key K as the
\* session_key of U, and the login changes the session_key of no other account.
C4_SessionKeyOfNamedAccount ==
    [][ LoginStep =>
          /\ accounts'[Named].session_key =
                verify_challenge_response(state.token.server,
                                          trace'[Len(trace) + 1].msg.a_pub,
                                          trace'[Len(trace) + 1].msg.proof).key
          /\ \A v \in DOMAIN accounts \ {Named} :
                accounts'[v].session_key = accounts[v].session_key ]_vars

\* C5: in ConnectChallenge, a ConnectProof that does not verify (M1 does not
\* match, or A is invalid) puts the connection in Rejected with
\* IncorrectPassword: the rejection is what is written next, no session key is
\* written to the store, and Realmlist is not reached.
C5_BadProofRejected ==
    \A j \in TraceIdx :
        (ProofReadAt(j) /\ VerifyAt(j).res # "some") =>
            /\ \A i \in TraceIdx : trace[i].ev # "update"
            /\ state.tag # "Realmlist"
            /\ Len(trace) = j =>
                  /\ phase = "open"
                  /\ state = Rejected(CMD_AuthLogonProof, RC_IncorrectPassword)
            /\ Len(trace) > j =>
                  /\ Len(trace) = j + 1
                  /\ IsWrite(trace[j + 1], "Rejected")
                  /\ StatusOf(trace[j + 1].bytes) = RC_IncorrectPassword

\* C6: a ConnectRequest or ReconnectRequest whose build is not 12340 is
\* rejected with VersionInvalid whatever account it names (existing or not),
\* and no query of the Account Store runs for it.
C6_VersionInvalidFirst ==
    ( /\ (FirstIs("ConnectRequest") \/ FirstIs("ReconnectRequest"))
      /\ trace[1].msg.build # BUILD )
    => /\ \A i \in TraceIdx : trace[i].ev \notin {"query", "update"}
       /\ phase # "panicked"
       /\ Len(trace) = 1 =>
             /\ phase = "open"
             /\ state = Rejected(trace[1].msg.op, RC_VersionInvalid)
       /\ Len(trace) > 1 =>
             /\ Len(trace) = 2
             /\ IsWrite(trace[2], "Rejected")
             /\ trace[2].bytes[1] = trace[1].msg.op
             /\ StatusOf(trace[2].bytes) = RC_VersionInvalid

\* C6 witness: a request with a wrong build naming no stored account, and one
\* naming a stored account would do as well, answered with the rejection.
C6_Witness ==
    /\ FirstIs("ReconnectRequest")
    /\ trace[1].msg.build # BUILD
    /\ Named \notin DOMAIN accounts
    /\ Len(trace) = 2 /\ IsWrite(trace[2], "Rejected") /\ trace[2].ok

\* the statuses C7 allows for a ConnectRequest whose lookup gives no usable account
C7_Expected ==
    IF Named \notin DOMAIN accounts THEN {RC_UnknownAccount, RC_Failed}
    ELSE IF ~trace[2].ok THEN {RC_Failed}
    ELSE IF accounts[Named].ban = "temporary" THEN {RC_Suspended}
    ELSE {RC_Banned}

\* C7: when the account lookup for a ConnectRequest with build 12340 yields no
\* usable account, the rejection status is Suspended for a temporary ban,
\* Banned for a permanent ban, UnknownAccount when no such account exists and
\* Failed when the store returns an error.
C7_RejectionMapping ==
    ( /\ FirstIs("ConnectRequest")
      /\ trace[1].msg.build = BUILD
      /\ Len(trace) >= 2 /\ trace[2].ev = "query"
      /\ \/ Named \notin DOMAIN accounts
         \/ ~trace[2].ok
         \/ accounts[Named].ban # "none" )
    => /\ Len(trace) = 2 =>
             /\ phase = "open"
             /\ state.tag = "Rejected"
             /\ state.reason \in C7_Expected
       /\ Len(trace) > 2 =>
             /\ IsWrite(trace[3], "Rejected")
             /\ StatusOf(trace[3].bytes) \in C7_Expected

\* C8: every rejection written to the socket is exactly the 3 bytes
\* [opcode, 0x00, status]; a ConnectRequest with build 12339 is answered with
\* 00 00 09 and a ConnectRequest for an unknown account with 00 00 04.
C8_RejectionFrame ==
    \A i \in TraceIdx :
        IsWrite(trace[i], "Rejected") =>
            /\ Len(trace[i].bytes) = 3
            /\ trace[i].bytes[2] = 0
            /\ (FirstIs("ConnectRequest") /\ trace[1].msg.build = 12339)
                  => trace[i].bytes = <<0, 0, 9>>
            /\ ( /\ FirstIs("ConnectRequest") /\ trace[1].msg.build = BUILD
                 /\ Named = "NOBODY" )
                  => trace[i].bytes = <<0, 0, 4>>

\* C9: in Realmlist, a RealmListRequest is answered with a RealmListResponse
\* and the connection stays in Realmlist, ready for the next RealmListRequest.
C9_RealmlistStays ==
    \A i \in TraceIdx :
        ( /\ i > 1 /\ IsRead(trace[i], "RealmList")
          /\ trace[i - 1].ev = "write" /\ trace[i - 1].ok
          /\ trace[i - 1].what \in {"ConnectProofResponse", "ReconnectProofResponse",
                                    "RealmListResponse"} )
        => /\ Len(trace) > i
           /\ IsWrite(trace[i + 1], "RealmListResponse")
           /\ (trace[i + 1].ok /\ Len(trace) = i + 1) =>
                 (phase = "open" /\ state.tag = "Realmlist")

\* the opcodes the state machine allows in each state
LegalOps(tag) ==
    CASE tag = "Start" -> {CMD_ConnectRequest, CMD_AuthReconnectChallenge}
      [] tag = "ConnectChallenge" -> {CMD_AuthLogonProof}
      [] tag = "ReconnectChallenge" -> {CMD_AuthReconnectProof}
      [] tag = "Realmlist" -> {CMD_RealmList}
      [] OTHER -> {}

\* the message decodes: a known opcode with a body of the decoder's size
Decodes(msg) ==
    \/ msg.op = CMD_RealmList
    \/ msg.op \in {CMD_ConnectRequest, CMD_AuthReconnectChallenge}
          /\ msg.len = SIZE_ConnectRequest
    \/ msg.op = CMD_AuthLogonProof /\ msg.len = SIZE_ConnectProof
    \/ msg.op = CMD_AuthReconnectProof /\ msg.len = SIZE_ReconnectProof

\* this step reads a message that is unknown, undecodable or illegal in state
IllegalRead ==
    /\ phase = "open"
    /\ Len(trace') > Len(trace)
    /\ trace'[Len(trace) + 1].ev = "read"
    /\ \/ ~Decodes(trace'[Len(trace) + 1].msg)
       \/ trace'[Len(trace) + 1].msg.op \notin LegalOps(state.tag)

\* C10: in every state that reads, a message whose opcode is not legal there,
\* or is unknown, or fails to decode, aborts the connection: nothing is written
\* for it, the Account Store is unchanged, and the aborted connection takes no
\* further step (the acceptor's next step is a new connection in Start).
C10_IllegalMessageAborts ==
    [][ /\ IllegalRead =>
              /\ phase' = "returned_err"
              /\ accounts' = accounts
              /\ state' = state
              /\ Len(trace') = Len(trace) + 1
        /\ phase = "returned_err" =>
              /\ phase' = "open" /\ state' = Start /\ trace' = <<>>
              /\ accounts' = accounts /\ conns' = conns + 1 ]_vars

\* C10 witness: an authenticated connection in Realmlist that was sent a
\* ConnectRequest and was aborted.
C10_Witness ==
    /\ phase = "returned_err"
    /\ state.tag = "Realmlist"
    /\ IsRead(trace[Len(trace)], "ConnectRequest")

\* the rejection frames written on the connection so far
RejectionWrites(t) == Cardinality({i \in 1..Len(t) : IsWrite(t[i], "Rejected")})

\* C11: once a connection is in Rejected its only step writes the rejection
\* and ends it: no message is read, the state never becomes ConnectChallenge,
\* ReconnectChallenge or Realmlist, the store is untouched, and a connection
\* writes one rejection frame, after which it does nothing but return.
C11_RejectedIsFinal ==
    [][ /\ (phase = "open" /\ state.tag = "Rejected") =>
              /\ Len(trace') = Len(trace) + 1
              /\ IsWrite(trace'[Len(trace')], "Rejected")
              /\ RejectionWrites(trace') = 1
              /\ accounts' = accounts
              /\ \/ phase' = "open" /\ state' = Done /\ trace'[Len(trace')].ok
                 \/ phase' = "returned_err" /\ state' = state
                       /\ ~trace'[Len(trace')].ok
        /\ (phase = "open" /\ RejectionWrites(trace) >= 1) =>
              /\ state = Done
              /\ phase' = "returned_ok"
              /\ trace' = trace /\ accounts' = accounts /\ state' = state ]_vars

\* C11 witness: a rejected connection that wrote its rejection and returned.
C11_Witness ==
    /\ phase = "returned_ok"
    /\ state = Done
    /\ RejectionWrites(trace) = 1
    /\ IsWrite(trace[Len(trace)], "Rejected")

\* the account the request names has a stored session key
NamedHasKey == Named \in DOMAIN accounts /\ accounts[Named].session_key # NoKey

\* C12: in Start, a ReconnectRequest with build 12340 for an account with a
\* stored session key (the store answering) writes opcode 0x02, status 0x00,
\* the nonce drawn for this request and the version challenge, and moves the
\* connection to ReconnectChallenge with that nonce and key; for an account
\* without a stored session key it is rejected and ReconnectChallenge is
\* never entered.
C12_ReconnectRequestIssuesChallenge ==
    ( /\ FirstIs("ReconnectRequest")
      /\ trace[1].msg.build = BUILD
      /\ Len(trace) >= 2 /\ trace[2].ev = "query" )
    => /\ (NamedHasKey /\ trace[2].ok) =>
             /\ Len(trace) >= 3
             /\ IsWrite(trace[3], "ReconnectChallenge")
             /\ Len(trace[3].bytes) = 3 + Len(VERSION_CHALLENGE)
             /\ trace[3].bytes[1] = 2
             /\ trace[3].bytes[2] = 0
             /\ trace[3].bytes[3] \in 0..(NonceValues - 1)
             /\ SubSeq(trace[3].bytes, 4, Len(trace[3].bytes)) = VERSION_CHALLENGE
             /\ (trace[3].ok /\ Len(trace) = 3) =>
                   /\ phase = "open"
                   /\ state.tag = "ReconnectChallenge"
                   /\ state.token.username = Named
                   /\ state.token.reconnect_proof = trace[3].bytes[3]
                   /\ state.token.session_key = accounts[Named].session_key
       /\ ~NamedHasKey =>
             /\ ~trace[2].ok
             /\ state.tag # "ReconnectChallenge"
             /\ \A i \in TraceIdx : ~IsWrite(trace[i], "ReconnectChallenge")
             /\ Len(trace) = 2 => (phase = "open" /\ state.tag = "Rejected")
             /\ Len(trace) > 2 => (Len(trace) = 3 /\ IsWrite(trace[3], "Rejected"))

\* C12 witness: a connection in ReconnectChallenge for an account whose
\* session key an earlier login stored.
C12_Witness ==
    /\ phase = "open"
    /\ state.tag = "ReconnectChallenge"
    /\ FirstIs("ReconnectRequest")
    /\ NamedHasKey
    /\ Len(trace) = 3 /\ trace[3].ok

\* C13: in ReconnectChallenge, a ReconnectProof takes the connection to
\* Realmlist, the ReconnectProofResponse written, iff its proof equals
\* SHA1(username, proof_data, server_nonce, K) for the nonce sent in this
\* connection's ReconnectChallenge and the account's stored session key K; any
\* other proof puts it in Rejected with IncorrectPassword, nothing written.
C13_ReconnectProofDecides ==
    [][ ( /\ phase = "open" /\ state.tag = "ReconnectChallenge"
          /\ Len(trace') > Len(trace)
          /\ IsRead(trace'[Len(trace) + 1], "ReconnectProof") ) =>
          LET msg == trace'[Len(trace) + 1].msg
              server_nonce == trace[Len(trace)].bytes[3]
              expected == Sha1(StrBytes(Named) \o <<msg.data>> \o <<server_nonce>>
                               \o accounts[Named].session_key)
          IN  /\ IsWrite(trace[Len(trace)], "ReconnectChallenge")
              /\ msg.proof = expected =>
                    /\ Len(trace') = Len(trace) + 2
                    /\ IsWrite(trace'[Len(trace')], "ReconnectProofResponse")
                    /\ trace'[Len(trace')].ok => (phase' = "open" /\ state' = Realmlist)
                    /\ ~trace'[Len(trace')].ok => phase' = "returned_err"
              /\ msg.proof # expected =>
                    /\ Len(trace') = Len(trace) + 1
                    /\ phase' = "open"
                    /\ state'.tag = "Rejected"
                    /\ state'.reason = RC_IncorrectPassword ]_vars

\* C13 witness: a connection that answered its ReconnectChallenge with the
\* expected proof and is in Realmlist.
C13_Witness ==
    /\ phase = "open"
    /\ state = Realmlist
    /\ FirstIs("ReconnectRequest")
    /\ IsWrite(trace[Len(trace)], "ReconnectProofResponse")
    /\ trace[Len(trace)].ok

\* ------------------------------------------------------------------------
\* Claims about the heartbeat table and the updater
\* ------------------------------------------------------------------------

\* the step in which the updater builds its list under the guard
BuildStep == upc = "locked" /\ upc' = "calling"

\* the pairs of a list
Entries(list) == {list[i] : i \in 1..Len(list)}

\* C14: at every tick a realm in the table is reported Offline and drained
\* iff its last-seen instant is strictly more than 15 s before the tick's
\* instant, and reported Recommended iff it is in the table after the drain
C14_DrainStrictlyOlderThan15s ==
    [][BuildStep =>
          \A k \in DOMAIN heartbeat :
              /\ (<<k, "Offline">> \in Entries(data') /\ k \notin DOMAIN heartbeat')
                     <=> (now - heartbeat[k] > OFFLINE_SECS * SubPerSec)
              /\ <<k, "Recommended">> \in Entries(data')
                     <=> k \in DOMAIN heartbeat']_vars

\* C15: whatever the receiver and the updater do in between, the list one
\* tick produces never names a realm both as Offline and as Recommended
C15_NeverOfflineAndRecommended ==
    \A k \in {1, 2} :
        ~(<<k, "Offline">> \in Entries(data) /\ <<k, "Recommended">> \in Entries(data))

\* a tick produced a list with one realm Offline and another Recommended,
\* the second one heard of after the first
C15_Witness ==
    /\ upc = "calling"
    /\ \E k \in {1, 2}, j \in {1, 2} :
          /\ <<k, "Offline">> \in Entries(data)
          /\ <<j, "Recommended">> \in Entries(data)
          /\ j \in DOMAIN heartbeat /\ heartbeat[j] > 0

\* C16: a realm heard of at t = 0 and not again is handed to the store as
\* Offline by the first tick at or after t = 16 s and by no earlier tick: a
\* tick reports an entry Offline iff it is at least 16 s old at the tick
C16_OfflineAtSixteenSeconds ==
    [][BuildStep =>
          \A k \in DOMAIN heartbeat :
              <<k, "Offline">> \in Entries(data')
                 <=> (now - heartbeat[k] >= (OFFLINE_SECS + 1) * SubPerSec)]_vars

\* the store is being handed an Offline entry by the tick at 20 s
C16_Witness ==
    /\ upc = "calling"
    /\ now = 4 * TICK_SECS * SubPerSec
    /\ \E k \in {1, 2} : <<k, "Offline">> \in Entries(data) /\ k \notin DOMAIN heartbeat

\* the step in which the receiver takes a datagram
ReceiveStep == dgrams' = dgrams + 1 /\ received' # <<>>

\* C17: a received datagram changes the table iff it is exactly 6 bytes with
\* tag byte 0; then only the entry of its realm_id changes, to the current
\* instant, and any other datagram leaves the whole table unchanged
C17_OnlySixByteTagZero ==
    [][ReceiveStep =>
          IF Len(received') = HEARTBEAT_LEN /\ received'[1] = 0
          THEN /\ DOMAIN heartbeat' = DOMAIN heartbeat \cup {received'[2]}
               /\ heartbeat'[received'[2]] = clock
               /\ \A k \in DOMAIN heartbeat \ {received'[2]} :
                      heartbeat'[k] = heartbeat[k]
          ELSE heartbeat' = heartbeat]_vars

\* the step in which update_status returns to the updater
CallReturns == upc = "calling" /\ upc' # "calling"

\* C18: when update_status fails the updater does not end: it waits for the
\* next tick, five seconds after the last, and that tick builds and calls again
C18_StoreErrorKeepsLoop ==
    [][CallReturns =>
          /\ upc' = "waiting"
          /\ tasks'["realmlist"] = "running"
          /\ exit' = "running"
          /\ nextTick' = nextTick + TICK_SECS * SubPerSec]_vars

\* the store failed on one tick and a later tick is calling it with a list
C18_Witness ==
    /\ ~lastOk
    /\ upc = "calling"
    /\ now = nextTick
    /\ data # <<>>

\* C19: the updater holds the write guard only while it builds the list and
\* has dropped it before it calls the store
C19_LockFreeDuringStoreCall ==
    /\ upc = "calling" => lock = "free"
    /\ lock = "updater" => upc = "locked"

\* a heartbeat of a realm the list does not name was recorded while the
\* store call was in progress
C19_Witness ==
    /\ upc = "calling"
    /\ \E k \in DOMAIN heartbeat :
          /\ \A i \in 1..Len(data) : data[i][1] # k
          /\ heartbeat[k] = clock

\* ------------------------------------------------------------------------
\* Claims about start_server
\* ------------------------------------------------------------------------

\* C20: once one of the three tasks has ended, the other two are cancelled
\* and the process has exited with a failure
C20_FailFast ==
    (\E n \in TaskNames : tasks[n] # "running")
        => /\ exit = "failure"
           /\ \E n \in TaskNames :
                 /\ tasks[n] \in {"err", "panic"}
                 /\ \A m \in TaskNames \ {n} : tasks[m] = "cancelled"

\* the acceptor panicked while the receiver and the updater were at work
C20_Witness ==
    /\ tasks["auth"] = "panic"
    /\ tasks["heartbeat"] = "cancelled" /\ tasks["realmlist"] = "cancelled"
    /\ exit = "failure"
    /\ DOMAIN heartbeat # {} /\ upc = "calling"

\* ------------------------------------------------------------------------
\* Claims about the SRP core and the wire codec
\* ------------------------------------------------------------------------

\* the client public key of the proof read at j is a multiple of N
ZeroModN(j) == from_bytes_le(trace[j].msg.a_pub) % N = 0

\* C21: when the client public key A is 0 modulo N the verification fails
\* for every client proof, with no session key: the connection is rejected
\* with IncorrectPassword, nothing is stored and Realmlist is not reached
C21_ZeroPublicKeyRefused ==
    \A j \in TraceIdx :
        (ProofReadAt(j) /\ Named \in DOMAIN accounts /\ ZeroModN(j)) =>
            /\ VerifyAt(j) = [res |-> "none", key |-> <<>>]
            /\ \A i \in TraceIdx : trace[i].ev # "update"
            /\ \A i \in TraceIdx : ~IsWrite(trace[i], "ConnectProofResponse")
            /\ state.tag # "Realmlist"
            /\ Len(trace) = j =>
                  /\ phase = "open"
                  /\ state = Rejected(CMD_AuthLogonProof, RC_IncorrectPassword)

\* a ConnectProof with A = N was read for a challenge and rejected
C21_Witness ==
    \E j \in TraceIdx :
        /\ ProofReadAt(j) /\ Named \in DOMAIN accounts
        /\ from_bytes_le(trace[j].msg.a_pub) = N
        /\ Len(trace) = j
        /\ state = Rejected(CMD_AuthLogonProof, RC_IncorrectPassword)

\* what an SRP6 client that knows username and password computes for the
\* server's salt and B and its own private key a: A, S, K and the proof M1
RECURSIVE PowMod(_, _, _)
PowMod(x, e, m) ==
    IF e = 0 THEN 1 % m
    ELSE IF e % 2 = 0 THEN PowMod((x * x) % m, e \div 2, m)
    ELSE (x * PowMod(x, e - 1, m)) % m

ClientPublicKey(a) == PowMod(G, a, N)

ClientSecret(username, password, salt, b_pub, a_pub, a) ==
    LET x == from_bytes_le(<<Sha1(<<salt>>
                 \o <<Sha1(StrBytes(username) \o <<0>> \o StrBytes(password))>>)>>)
        u == from_bytes_le(<<Sha1(a_pub \o b_pub)>>)
        base == (from_bytes_le(b_pub) + 3 * (N - PowMod(G, x, N))) % N
    IN  PowMod(base, a + u * x, N)

ClientProof(username, password, salt, b_pub, a_pub, a) ==
    LET K == derive_session_key(
                 wire_bytes(ClientSecret(username, password, salt, b_pub, a_pub, a)))
    IN  Sha1(<<xor(Sha1(to_bytes_le(N)), Sha1(to_bytes_le(G))),
               Sha1(StrBytes(username)), salt>> \o a_pub \o b_pub \o K)

\* client_m is the proof a client derives from username and password for
\* the public keys A and B of this exchange
DerivedFrom(username, password, server, a_pub, client_m) ==
    \E a \in 0..(N - 2) :
        /\ from_bytes_le(a_pub) % N = ClientPublicKey(a)
        /\ client_m = ClientProof(username, password, server.salt, server.b_pub,
                                  a_pub, a)

\* C22: on a server made from what register gave for (username, password),
\* verify_challenge_response returns a session key iff the client's M1 was
\* derived from that username and password and the same A and B
C22_VerifiesIffDerived ==
    call.fn = "verify" =>
        (call.out.res = "some"
            <=> DerivedFrom(call.username, call.password, call.server,
                            call.a_pub, call.client_m))

\* the number the bytes of the private key b stand for in calculate_b_pub
PrivateKey(server) == from_bytes_be(server.b)

\* C23: a server that was built has B = (3 v + g^b) mod N, and the premaster
\* secret is computed with the same b: whenever the verification returns, it
\* accepts exactly the proof a client derives from that B
C23_PublicKeyOfServer ==
    /\ (call.fn \in {"new", "verify"} /\ ~call.server.panic) =>
          from_bytes_le(call.server.b_pub)
             = (3 * from_bytes_le(call.server.verifier)
                + PowMod(G, PrivateKey(call.server), N)) % N
    /\ (call.fn = "verify" /\ call.out.res # "panic") =>
          (call.out.res = "some"
              <=> DerivedFrom(call.username, call.password, call.server,
                              call.a_pub, call.client_m))

\* a proof derived from B was accepted on a server whose b reads differently
\* from its two ends
C23_Witness ==
    /\ call.fn = "verify"
    /\ call.out.res = "some"
    /\ from_bytes_be(call.server.b) % (N - 1) # from_bytes_le(call.server.b) % (N - 1)
    /\ DerivedFrom(call.username, call.password, call.server,
                   call.a_pub, call.client_m)

\* C24: the verifier, B and the premaster secret are serialised at their
\* fixed width, so from_credentials, WowSRPServer::new and
\* verify_challenge_response return a value for every input
C24_FixedWidthAlwaysReturns ==
    /\ call.fn = "register" =>
          ~call.out.panic /\ Len(call.out.verifier) = SrpWidth
    /\ call.fn = "new" =>
          ~call.server.panic /\ Len(call.server.b_pub) = SrpWidth
    /\ call.fn = "verify" => call.out.res # "panic"

\* the fixed body of each message and the tail its body announces
FixedBody(op) ==
    CASE op \in {CMD_ConnectRequest, CMD_AuthReconnectChallenge} -> 29
      [] op = CMD_AuthLogonProof -> 74
      [] op = CMD_AuthReconnectProof -> 57
      [] op = CMD_RealmList -> 4

AnnouncedTail(msg) ==
    IF msg.op \in {CMD_ConnectRequest, CMD_AuthReconnectChallenge}
    THEN msg.ident.len ELSE 0

\* the bytes taken from the stream for the message read at i
Consumed(i) ==
    bytes_read(trace[i].msg)
    + (IF trace[i].what \in {"ConnectRequest", "ReconnectRequest"}
       THEN identifier_read(trace[i].msg) ELSE 0)

\* the message read at i was decoded and handled without a panic
Handled(i) ==
    /\ trace[i].ev = "read" /\ trace[i].what # "err"
    /\ i < Len(trace) \/ phase \in {"open", "returned_ok"}

\* C25: for each message that is handled the server takes from the stream
\* the opcode, the fixed body of that message (29, 74, 57 or 4 bytes) and the
\* tail the body announces, so that the next byte is the next opcode
C25_ConsumesWholeMessage ==
    \A i \in TraceIdx :
        Handled(i) =>
            Consumed(i) = 1 + FixedBody(trace[i].msg.op) + AnnouncedTail(trace[i].msg)

\* C26: for every list of realms the frame has realm_count equal to the
\* number of realms and packet_size equal to the number of bytes after the
\* packet_size field (the frame without its opcode and the two bytes of the
\* field), with no wrap-around of the 16-bit field
C26_PacketSizeCountsRest ==
    call.fn = "from_realms" =>
        /\ ~call.panic
        /\ call.out.realm_count = call.count
        /\ call.out.packet_size = call.frame_len - 3

\* ------------------------------------------------------------------------
\* Claims about the account store's create_account
\* ------------------------------------------------------------------------

\* the step in which create_account is called, and the row it added last
CreateStep == call'.fn = "create_account" /\ call' # call

LastRow(table) == table[Len(table)]

\* the bytes of a string hold a lower-case letter
HasLower(str) == \E i \in 1..Len(str) : str[i] >= 97 /\ str[i] <= 122

\* C27: a username longer than 16 gives UsernameTooLong and otherwise a
\* password longer than 16 gives PasswordTooLong, with nothing written; on
\* success the stored username is the input in upper case and the stored
\* verifier is the one of the upper-cased username and password with the
\* stored salt
C27_CreateAccountChecksAndUppercases ==
    [][CreateStep =>
          /\ Len(call'.username) > 16 =>
                call'.res = "UsernameTooLong" /\ inserted' = inserted
          /\ (Len(call'.username) <= 16 /\ Len(call'.password) > 16) =>
                call'.res = "PasswordTooLong" /\ inserted' = inserted
          /\ call'.res = "ok" =>
                /\ Len(inserted') = Len(inserted) + 1
                /\ SubSeq(inserted', 1, Len(inserted)) = inserted
                /\ ~HasLower(LastRow(inserted').username)
                /\ LastRow(inserted').username = to_ascii_uppercase(call'.username)
                /\ from_bytes_le(LastRow(inserted').verifier)
                      = verifier_num_of_bytes(to_ascii_uppercase(call'.username),
                                              to_ascii_uppercase(call'.password),
                                              LastRow(inserted').salt)]_vars

\* an account typed with lower-case letters was created and its row holds
\* another username than the one typed
C27_Witness ==
    /\ call.fn = "create_account" /\ call.res = "ok"
    /\ HasLower(call.username) /\ HasLower(call.password)
    /\ Len(inserted) = 1
    /\ LastRow(inserted).username # call.username

\* ------------------------------------------------------------------------
\* Claims about the end of a rejected connection
\* ------------------------------------------------------------------------

\* the connection's first request had another build than 12340 and the
\* VersionInvalid rejection was written for it
VersionRejectionWritten ==
    /\ Len(trace) >= 2
    /\ trace[1].ev = "read" /\ trace[1].ok
    /\ trace[1].msg.build # BUILD
    /\ IsWrite(trace[2], "Rejected") /\ trace[2].ok
    /\ StatusOf(trace[2].bytes) = RC_VersionInvalid

\* C28: after a build mismatch and the VersionInvalid rejection the server
\* keeps the connection open and goes on reading; the connection ends only
\* when a read fails because the client has closed it, never by the server
C28_OpenUntilClientCloses ==
    [][(VersionRejectionWritten /\ phase = "open" /\ phase' # "open")
          => /\ Len(trace') = Len(trace) + 1
             /\ trace'[Len(trace')].ev = "read"
             /\ ~trace'[Len(trace')].ok]_vars

\* ------------------------------------------------------------------------
\* Claims about the world server's reauthentication
\* ------------------------------------------------------------------------

\* the step in which connect_loop reads the first frame of a connection and
\* that frame starts with an AuthSession; the AuthSession read
AuthSessionStep ==
    /\ wphase = "accepted" /\ wphase' # "accepted"
    /\ Len(wtrace') > Len(wtrace)
    /\ wtrace'[Len(wtrace) + 1].ev = "read"
    /\ wtrace'[Len(wtrace) + 1].packet.op = "AuthSession"

AuthSessionRead == wtrace'[Len(wtrace) + 1].packet

\* the AuthSession names this realm, the client has no account, the account
\* named is stored with a session key and the proof is the digest of
\* username, four zero bytes, local_challenge, realm_seed and session key
MayEnter(a) ==
    /\ a.realm_id = this_realm
    /\ clients[wconns] = ""
    /\ a.username \in DOMAIN accounts
    /\ accounts[a.username].session_key # <<>>
    /\ a.client_proof = Sha1(StrBytes(a.username) \o <<0, 0, 0, 0>>
                             \o a.local_challenge \o realm_seed
                             \o accounts[a.username].session_key)

AuthErrorCodes ==
    {"RealmListRealmNotFound", "AuthAlreadyOnline", "AuthUnknownAccount",
     "AuthSessionExpired", "AuthReject", "AuthSystemError"}

\* C29: a Session is created and the client's account set only if the
\* AuthSession names this realm, the client has no account yet, the account
\* exists with a stored session key and the proof matches; in every other
\* case an error code is written, no session is created and the connection
\* is closed
C29_SessionOnlyForProvenClient ==
    [][AuthSessionStep =>
          /\ (wconns \in sessions' \/ wphase' = "session") =>
                /\ MayEnter(AuthSessionRead)
                /\ wconns \in sessions' /\ wphase' = "session"
                /\ clients'[wconns] = AuthSessionRead.username
          /\ ~MayEnter(AuthSessionRead) =>
                /\ wtrace'[Len(wtrace')].ev = "write"
                /\ wtrace'[Len(wtrace')].what \in AuthErrorCodes
                /\ sessions' = sessions /\ wconns \notin sessions'
                /\ channel' = channel
                /\ wphase' = "closed"
                /\ wconns \notin DOMAIN clients']_vars

\* the second connection holds a session for its account after the first
\* was refused with an error code
C29_Witness ==
    /\ wphase = "session" /\ wconns = 2
    /\ sessions = {2}
    /\ clients[2] = "ARLYON"
    /\ Len(wtrace) = 3
    /\ wtrace[2].ev = "read" /\ wtrace[2].packet.op = "AuthSession"
    /\ wtrace[3].ev = "write" /\ wtrace[3].what = "AuthOk"


\* the entries a step has added at the end of the channel
Forwarded == {i \in 1..Len(channel') : Len(channel') > Len(channel) /\ i > Len(channel)}

\* the step in which connect_loop reads a first frame whose first packet is
\* no AuthSession
OtherFirstPacketStep ==
    /\ wphase = "accepted" /\ wphase' # "accepted"
    /\ Len(wtrace') > Len(wtrace)
    /\ wtrace'[Len(wtrace) + 1].ev = "read" /\ wtrace'[Len(wtrace) + 1].ok
    /\ wtrace'[Len(wtrace) + 1].packet.op # "AuthSession"

\* C30: a packet goes into the World's channel only from a connection whose
\* handle_auth_session has succeeded, and never the AuthSession that opened
\* it; a connection whose first packet is no AuthSession is closed with no
\* packet passed on
C30_NothingForwardedBeforeAuth ==
    [][/\ \A i \in Forwarded :
             /\ channel'[i].client = wconns
             /\ wconns \in sessions' /\ clients'[wconns] # ""
             /\ \E j \in 1..Len(wtrace') :
                   wtrace'[j].ev = "write" /\ wtrace'[j].what = "AuthOk"
             /\ (wphase = "accepted" =>
                    channel'[i].packet # wtrace'[Len(wtrace) + 1].packet)
       /\ OtherFirstPacketStep =>
             /\ wphase' = "closed"
             /\ channel' = channel
             /\ sessions' = sessions]_vars

\* the second connection, after the first was closed, sent an AuthSession and
\* a Ping in one frame, and the Ping waits in the channel
C30_Witness ==
    /\ wconns = 2 /\ sessions = {2}
    /\ wphase = "session" /\ frames = 1
    /\ channel = <<[client |-> 2, packet |-> Ping]>>

\* ------------------------------------------------------------------------
\* Claims about the acceptor of the authentication server
\* ------------------------------------------------------------------------

\* C31: connections are served independently of one another: while a
\* connection that was accepted is still open and waits for bytes, a later
\* connection can be accepted and its ConnectRequest answered
C31_ServedIndependently ==
    (phase = "open" /\ conns < MaxConns) => ENABLED Accept


\* C32: nothing a client sends makes the acceptor task terminate: after every
\* message the task is reading, has dropped the connection or is listening,
\* and has not panicked
C32_AcceptorSurvivesClients ==
    phase \in {"listening", "open", "returned_ok", "returned_err"}


\* C33: no connection is in Realmlist, by the connect path or by the
\* reconnect path, for an account that is banned, temporarily or for good
C33_NoRealmlistForBanned ==
    (state.tag = "Realmlist" /\ Len(trace) >= 1 /\ Named \in DOMAIN accounts)
        => accounts[Named].ban = "none"


\* the last message read before event i of the trace
LastReadBefore(i) ==
    CHOOSE j \in 1..(i - 1) :
        /\ trace[j].ev = "read"
        /\ \A k \in (j + 1)..(i - 1) : trace[k].ev # "read"

\* C34: the opcode byte of every rejection is the opcode of the client
\* message that caused it: 0 for a ConnectRequest, 1 for a ConnectProof, 2 for
\* a ReconnectRequest and 3 for a ReconnectProof
C34_RejectionEchoesOpcode ==
    \A i \in TraceIdx :
        IsWrite(trace[i], "Rejected")
            => /\ \E j \in 1..(i - 1) : trace[j].ev = "read"
               /\ trace[i].bytes[1] = trace[LastReadBefore(i)].msg.op


\* ------------------------------------------------------------------------
\* Claims about lapsed realms and the interleavings of receiver and updater
\* ------------------------------------------------------------------------

\* the realm ids a list names
Reported(list) == {list[i][1] : i \in 1..Len(list)}

\* C35: a realm a tick reports Offline is removed from the table by that
\* tick, and a realm that is not in the table is reported by no tick, as
\* Offline or as Recommended, until a heartbeat for it is received: it enters
\* the table only when the receiver decodes tag 0 and its id
C35_OfflineOncePerLapse ==
    [][/\ BuildStep =>
             /\ \A k \in Reported(data') :
                   <<k, "Offline">> \in Entries(data') => k \notin DOMAIN heartbeat'
             /\ Reported(data') \subseteq DOMAIN heartbeat
       /\ \A k \in DOMAIN heartbeat' \ DOMAIN heartbeat :
             /\ ReceiveStep
             /\ buffer'[1] = 0 /\ buffer'[2] = k]_vars

\* a realm was heard of once, at the start; by the tick at 25 s it is out of
\* the table, which only the drain of the tick before does, and this tick's
\* list does not name it
C35_Witness ==
    /\ upc = "calling"
    /\ now >= 5 * TICK_SECS * SubPerSec
    /\ dgrams = 1 /\ received = <<0, 1, 9, 0, 0, 0>>
    /\ heartbeat = <<>>
    /\ data = <<>>


\* the step in which the updater leaves the block under the write guard
GuardedBlockEnds == upc = "locked" /\ upc' # "locked"

C38_SessionsOfConnectedClients == sessions \subseteq DOMAIN clients

\* the last step of the current connection was a read or a write that failed
\* with an I/O error
IoErrorLast ==
    /\ wtrace # <<>>
    /\ ~wtrace[Len(wtrace)].ok
    /\ wtrace[Len(wtrace)].what # "panic"

\* C40: an I/O error on one connection, a failed write of the auth challenge
\* included, never ends accept_clients: the client is removed from the clients
\* table and accept_clients goes on to the next connection
C40_IoErrorKeepsAccepting ==
    IoErrorLast => (wphase = "closed" /\ wconns \notin DOMAIN clients)

====
